---- MODULE Spec2Model ----
(***************************************************************************)
(* Model of the ChatKit panel (ChatKitPanel component, its error overlay)  *)
(* and of the create-session endpoint.                                     *)
(*                                                                         *)
(* Strings of the program are TLA+ strings; the JavaScript value null is   *)
(* the reserved string null below.  A workflow identifier, which the code  *)
(* trims and tests for a prefix, is a sequence of text chunks.             *)
(***************************************************************************)
EXTENDS Integers, Sequences, FiniteSets, TLC

\* ------------------------------------------------------------------ bounds
MaxResets == 2
MaxInFlight == 2
MaxRequests == 2
MaxMessages == 2

\* ------------------------------------------------------- JavaScript values
null == "<null>"

\* !x for a nullable string
Falsy(x) == x = null \/ x = ""

\* a ?? b
Nullish(a, b) == IF a = null THEN b ELSE a

\* a || b for nullable strings
OrElse(a, b) == IF Falsy(a) THEN b ELSE a

\* ------------------------------------------------- workflow identifier text
\* Chunks of text a workflow identifier is made of: a whitespace character,
\* the placeholder prefix, any other non-blank text.
WS == " "
PLACEHOLDER_PREFIX == "wf_replace"
OTHER_TEXT == "wf_68e5"

RECURSIVE trimStart(_)
trimStart(s) == IF s # <<>> /\ Head(s) = WS THEN trimStart(Tail(s)) ELSE s

RECURSIVE trimEnd(_)
trimEnd(s) ==
  IF s # <<>> /\ s[Len(s)] = WS THEN trimEnd(SubSeq(s, 1, Len(s) - 1)) ELSE s

\* String.prototype.trim
trim(s) == trimEnd(trimStart(s))

\* String.prototype.startsWith("wf_replace")
startsWithPlaceholder(s) == s # <<>> /\ Head(s) = PLACEHOLDER_PREFIX

\* The configured default (lib/config WORKFLOW_ID): the placeholder or a real one.
DefaultWorkflowIds == { <<PLACEHOLDER_PREFIX, OTHER_TEXT>>, <<OTHER_TEXT>> }

\* Texts the user types into the settings input.
TypedTexts ==
  { <<WS>>, <<WS, OTHER_TEXT, WS>>, <<PLACEHOLDER_PREFIX, OTHER_TEXT>> }

\* ------------------------------------------------------------- error state
ErrorFields == {"script", "session", "integration", "retryable"}

createInitialErrors ==
  [script |-> null, session |-> null, integration |-> null, retryable |-> FALSE]

\* setErrorState with the updated fields replaced by the initial ones
setErrorStateReplacing(current, updates) ==
  [f \in ErrorFields |->
     IF f \in DOMAIN updates THEN updates[f] ELSE createInitialErrors[f]]

\* setErrors((current) => ({ ...current, ...updates }))
setErrorState(current, updates) ==
  [f \in ErrorFields |-> IF f \in DOMAIN updates THEN updates[f] ELSE current[f]]

MissingWorkflowMsg == "Missing Workflow ID. Please configure it in Settings."
MissingSecretMsg == "Missing client secret in response"
ScriptUnavailableDetail ==
  "ChatKit web component is unavailable. Verify that the script URL is reachable."

VARIABLES
  errors,                 \* useState<ErrorState>
  isInitializingSession,  \* useState(true)
  isMounted,              \* isMountedRef.current
  scriptStatus,           \* "pending" | "ready" | "error"
  widgetInstanceKey,      \* key of the embedded widget (mount generation)
  workflowId,             \* committed workflow identifier
  isSettingsOpen,
  tempWorkflowId,         \* scratch copy edited in the settings modal
  processedFacts,         \* processedFacts.current
  registered,             \* window.customElements.get("openai-chatkit")
  timerArmed,             \* the 5 s script-readiness timeout is pending
  pendingEffects,         \* effects whose dependencies changed in the last commit
  inFlight,               \* credential requests awaiting the endpoint
  lastCall,               \* settlement of the last getClientSecret promise
  updates,                \* argument of the last setErrorState call (MergeSpec)
  route,                  \* the create-session endpoint and its current request
  browser,                \* the caller's cookie jar and its completed exchanges
  parse,                  \* a text given to parseWidgetFromText and its result
  dom,                    \* the message DOM the widget scanner observes
  view,                   \* a call of WidgetRenderer and what it returned
  obs,                    \* the scanner effect's runs: observers and polls
  tool                    \* record_fact invocations and what they did

panelVars ==
  << errors, isInitializingSession, isMounted, scriptStatus, widgetInstanceKey,
     workflowId, isSettingsOpen, tempWorkflowId, processedFacts, registered,
     timerArmed, pendingEffects, inFlight, lastCall >>

\* the state outside the panel's hooks
otherVars == << updates, route, browser, parse, dom, view, obs, tool >>

vars == << panelVars, otherVars >>

\* ------------------------------------------------------ session responses
\* A JSON value of the response body, as far as extractErrorDetail and the
\* client_secret test look at it: t is "absent", "string", "object" or
\* "other"; s is the string (or, for an object, its string message, null when
\* it has none).
Absent == [t |-> "absent", s |-> null]
Str(x) == [t |-> "string", s |-> x]
ObjMsg(x) == [t |-> "object", s |-> x]
ObjNoMsg == [t |-> "object", s |-> null]

\* details: a string, or an object whose error key holds e (Absent: no key).
NoDetails == [t |-> "absent", s |-> null, e |-> Absent]
DetailsStr(x) == [t |-> "string", s |-> x, e |-> Absent]
DetailsObj(ev) == [t |-> "object", s |-> null, e |-> ev]

EmptyPayload ==
  [error |-> Absent, details |-> NoDetails, message |-> Absent,
   client_secret |-> Absent]

\* response.statusText is empty over HTTP/2, the reason phrase otherwise.
\* What fetch settles with: a rejection (network failure), or a response with
\* its ok flag, status text and body; raw is "empty", "invalid" (not JSON),
\* "null" (the JSON null) or "object" (payload is its parse).
NetworkFailure ==
  [kind |-> "network", ok |-> FALSE, statusText |-> "", raw |-> "empty",
   payload |-> EmptyPayload]

Http(ok, statusText, raw, payload) ==
  [kind |-> "http", ok |-> ok, statusText |-> statusText, raw |-> raw,
   payload |-> payload]

FetchOutcomes ==
  { NetworkFailure,
    Http(TRUE, "", "object", [EmptyPayload EXCEPT !.client_secret = Str("cs_live_1")]),
    Http(TRUE, "", "object", [EmptyPayload EXCEPT !.client_secret = Str("")]),
    Http(TRUE, "", "empty", EmptyPayload),
    Http(TRUE, "", "null", EmptyPayload),
    Http(FALSE, "", "object",
         [EmptyPayload EXCEPT !.error = Str("Workflow not found"),
                              !.client_secret = Str("cs_live_1")]),
    Http(FALSE, "Bad Gateway", "object",
         [EmptyPayload EXCEPT !.error = ObjNoMsg,
                              !.details = DetailsObj(ObjMsg("Workflow not found"))]),
    Http(FALSE, "", "object", [EmptyPayload EXCEPT !.error = Str("")]),
    Http(FALSE, "", "invalid", EmptyPayload),
    Http(FALSE, "Bad Gateway", "null", EmptyPayload) }

FailedToFetchMsg == "Failed to fetch"

\* data after the JSON.parse of raw: <<>> is null, <<p>> the object p
parseData(resp) ==
  IF resp.raw = "object" THEN << resp.payload >>
  ELSE IF resp.raw = "null" THEN << >>
  ELSE << EmptyPayload >>

\* extractErrorDetail(payload, fallback)
extractErrorDetail(data, fallback) ==
  IF data = << >> THEN fallback
  ELSE LET payload == data[1]
           error == payload.error
           details == payload.details
           nestedError == details.e
       IN IF error.t = "string" THEN error.s
          ELSE IF error.t = "object" /\ error.s # null THEN error.s
          ELSE IF details.t = "string" THEN details.s
          ELSE IF details.t = "object" /\ nestedError.t = "string" THEN nestedError.s
          ELSE IF details.t = "object" /\ nestedError.t = "object"
                    /\ nestedError.s # null THEN nestedError.s
          ELSE IF payload.message.t = "string" THEN payload.message.s
          ELSE fallback

\* data?.client_secret, null when there is none
clientSecretOf(data) ==
  IF data = << >> THEN null
  ELSE IF data[1].client_secret.t = "string" THEN data[1].client_secret.s ELSE null

\* ------------------------------------------------------- vendor callbacks
\* error.message of a value the embedded widget reports is a sequence of text
\* chunks, so that String.prototype.includes can be computed.
RECURSIVE join(_)
join(chunks) == IF chunks = << >> THEN "" ELSE Head(chunks) \o join(Tail(chunks))

includes(chunks, needle) == \E i \in 1..Len(chunks) : chunks[i] = needle

VendorErrors ==
  { [isError |-> TRUE, name |-> "Error", message |-> << "Widget crashed" >>],
    [isError |-> TRUE, name |-> "Error", message |-> << "Request failed: ", "401" >>],
    [isError |-> TRUE, name |-> "DomainVerificationRequestError",
     message |-> << "Widget crashed" >>],
    [isError |-> FALSE, name |-> "", message |-> << "Widget crashed" >>] }

\* window.location.origin
CurrentOrigin == "https://chat.example.com"

DomainVerificationMsg ==
  "Domain verification required. Please add \"" \o CurrentOrigin
    \o "\" to your OpenAI domain allowlist at: "
    \o "https://platform.openai.com/settings/organization/security/domain-allowlist"

\* the test made on the error's name alone
isDomainVerificationErrorByName(error) ==
  error.isError /\ error.name = "DomainVerificationRequestError"

\* const isDomainVerificationError = ...
isDomainVerificationError(error) ==
  /\ error.isError
  /\ \/ includes(error.message, "DomainVerification")
     \/ includes(error.message, "domain verification")
     \/ includes(error.message, "401")
     \/ error.name = "DomainVerificationRequestError"

\* detail of a chatkit-script-error event; null: the event carries none
ScriptEventDetails == {null}

FactIds == {"", "fact_1"}

\* invocation.params.fact_id as the vendor widget passes it: missing, null
\* or a string
FactParams ==
  { [t |-> "undefined", s |-> ""], [t |-> "null", s |-> ""],
    [t |-> "string", s |-> ""], [t |-> "string", s |-> "fact_1"],
    [t |-> "string", s |-> "fact_2"] }

\* String(invocation.params.fact_id ?? "")
factIdOf(param) == IF param.t \in {"undefined", "null"} THEN "" ELSE param.s

\* the ids factIdOf gives
ToolIds == {factIdOf(param) : param \in FactParams}

\* Bound on the record_fact invocations in one behaviour.
MaxToolCalls == 4

\* No record_fact invocation yet. asked and saved count, per id and since
\* the last clear of processedFacts, the invocations of the tool and those
\* of onWidgetAction; last is the latest invocation.
NoTool ==
  [total |-> 0, asked |-> [id \in ToolIds |-> 0], saved |-> [id \in ToolIds |-> 0],
   last |-> [called |-> FALSE, param |-> [t |-> "undefined", s |-> ""],
             invoked |-> FALSE, success |-> FALSE]]

\* the record_fact branch without the test of processedFacts
recordFactUnchecked(processed, id) ==
  IF id = ""
    THEN [processed |-> processed, invoked |-> FALSE, success |-> TRUE]
  ELSE [processed |-> processed \cup {id}, invoked |-> TRUE, success |-> TRUE]

\* The record_fact branch of onClientTool: the set afterwards, whether
\* onWidgetAction was invoked, and the success field of the result.
recordFact(processed, id) ==
  IF id = "" \/ id \in processed
    THEN [processed |-> processed, invoked |-> FALSE, success |-> TRUE]
  ELSE [processed |-> processed \cup {id}, invoked |-> TRUE, success |-> TRUE]

\* -------------------------------------------------------------- rendering
\* isWorkflowConfigured without the placeholder test
isWorkflowConfiguredNonEmpty(wf) == wf # << >>

isWorkflowConfiguredOf(wf) == wf # << >> /\ ~startsWithPlaceholder(wf)

isWorkflowConfigured == isWorkflowConfiguredOf(workflowId)

activeError == Nullish(errors.session, errors.integration)

\* blockingError with session and integration ahead of script
blockingErrorSessionFirst == Nullish(activeError, errors.script)

blockingError == Nullish(errors.script, activeError)

\* className of the embedded widget: TRUE when it is "block h-full w-full"
widgetVisible == ~(~Falsy(blockingError) \/ isInitializingSession)

LoadingMsg == "Loading assistant session..."

fallbackMessage ==
  IF ~Falsy(blockingError) \/ ~isInitializingSession THEN null ELSE LoadingMsg

\* onRetry prop: TRUE when it is handleResetChat, FALSE when null
onRetry == ~Falsy(blockingError) /\ errors.retryable

\* ErrorOverlay: what it renders for its props
ErrorOverlay(error, fallback, retry) ==
  LET content == Nullish(error, fallback)
  IN IF (Falsy(error) /\ Falsy(fallback)) \/ Falsy(content)
       THEN [shown |-> FALSE, content |-> null, button |-> FALSE]
       ELSE [shown |-> TRUE, content |-> content,
             button |-> ~Falsy(error) /\ retry]

overlay == ErrorOverlay(blockingError, fallbackMessage, onRetry)

\* ------------------------------------------------- create-session endpoint
SESSION_COOKIE_NAME == "chatkit_session_id"
SESSION_COOKIE_MAX_AGE == 60 * 60 * 24 * 30

\* process.env and lib/config as the endpoint reads them
RouteEnvs ==
  [LOCAL_OPENAI_API_KEY : {null, "", "sk-local"},
   OPENAI_API_KEY : {null, "sk-amplify"},
   WORKFLOW_ID : {"", "wf_default"},
   production : BOOLEAN]

\* One cookie of a Cookie header, split at its first "=": the text before it,
\* whether there is an "=", and the text after it (texts are chunk sequences).
Cookie(rawName, hasEq, value) ==
  [rawName |-> rawName, hasEq |-> hasEq, value |-> value]

\* Cookie headers; << >> is a request without one.
CookieHeaders ==
  { << >>,
    << Cookie(<< SESSION_COOKIE_NAME >>, TRUE, << "uuid-prev" >>) >>,
    << Cookie(<< "theme" >>, TRUE, << "dark" >>),
       Cookie(<< WS, SESSION_COOKIE_NAME >>, TRUE, << "uuid-prev", WS >>) >>,
    << Cookie(<< "theme" >>, TRUE, << "dark" >>) >>,
    << Cookie(<< SESSION_COOKIE_NAME >>, FALSE, << >>) >>,
    << Cookie(<< SESSION_COOKIE_NAME >>, TRUE, << WS >>) >> }

\* A field of the request body: t is "absent", "null" or "string".
NoField == [t |-> "absent", s |-> << >>]
NullField == [t |-> "null", s |-> << >>]
Text(chunks) == [t |-> "string", s |-> chunks]

\* workflow: absent, null, or an object with its id field
NoWorkflow == [t |-> "absent", id |-> NoField]
NullWorkflow == [t |-> "null", id |-> NoField]
Workflow(id) == [t |-> "object", id |-> id]

\* A request body conforming to CreateSessionRequestBody: raw is "empty",
\* "invalid" (not JSON), "null" or "object".
Body(raw, user, workflow, wfId) ==
  [raw |-> raw, user |-> user, workflow |-> workflow, workflowId |-> wfId]

EmptyBody == Body("empty", NoField, NoWorkflow, NoField)

RequestBodies ==
  { EmptyBody,
    Body("invalid", NoField, NoWorkflow, NoField),
    Body("null", NoField, NoWorkflow, NoField),
    Body("object", NoField, NoWorkflow, NoField),
    Body("object", Text(<< "user_1" >>), Workflow(Text(<< "wf_body" >>)), NoField),
    Body("object", Text(<< WS >>), NoWorkflow, NoField),
    Body("object", NullField, Workflow(Text(<< >>)), Text(<< "wf_alt" >>)),
    Body("object", NoField, NullWorkflow, Text(<< "wf_alt" >>)),
    Body("object", Text(<< WS, "user_1", WS >>), Workflow(NullField), NullField),
    Body("object", Text(<< "user_1" >>), Workflow(NoField), NoField) }

\* A string value of the upstream JSON is a chunk sequence; an object is
\* given by its message (<< >> when it has no string message, << m >> else).
UAbsent == [t |-> "absent", s |-> << >>]
UStr(chunks) == [t |-> "string", s |-> << chunks >>]
UObjMsg(chunks) == [t |-> "object", s |-> << chunks >>]
UObjNoMsg == [t |-> "object", s |-> << >>]

UNoDetails == [t |-> "absent", s |-> << >>, e |-> UAbsent]
UDetailsStr(chunks) == [t |-> "string", s |-> << chunks >>, e |-> UAbsent]
UDetailsObj(ev) == [t |-> "object", s |-> << >>, e |-> ev]

\* upstream JSON object: client_secret and expires_after are null when absent
UpstreamJson(error, details, message, secret, expires) ==
  [error |-> error, details |-> details, message |-> message,
   client_secret |-> secret, expires_after |-> expires]

EmptyJson == UpstreamJson(UAbsent, UNoDetails, UAbsent, null, null)

\* What the upstream fetch settles with: kind is "network" (fetch throws) or
\* "http"; json is << >> for the JSON null, << j >> for an object, and
\* parses is FALSE when the body is not JSON.
Upstream(kind, status, statusText, parses, json) ==
  [kind |-> kind, status |-> status, statusText |-> statusText,
   parses |-> parses, json |-> json]

UpstreamOutcomes ==
  { Upstream("network", 0, "", FALSE, << >>),
    Upstream("http", 200, "OK", TRUE,
             << UpstreamJson(UAbsent, UNoDetails, UAbsent, "cs_live_1", "600") >>),
    Upstream("http", 200, "OK", TRUE,
             << UpstreamJson(UAbsent, UNoDetails, UAbsent, "cs_live_1", null) >>),
    Upstream("http", 200, "OK", TRUE, << EmptyJson >>),
    Upstream("http", 200, "OK", FALSE, << >>),
    Upstream("http", 404, "Not Found", TRUE,
             << UpstreamJson(UObjMsg(<< "Workflow ", "not found" >>), UNoDetails,
                             UAbsent, null, null) >>),
    Upstream("http", 401, "Unauthorized", TRUE,
             << UpstreamJson(UStr(<< "Invalid API key" >>), UNoDetails, UAbsent,
                             null, null) >>),
    Upstream("http", 401, "Unauthorized", TRUE,
             << UpstreamJson(UObjNoMsg, UDetailsObj(UStr(<< "Key ", "not found" >>)),
                             UAbsent, null, null) >>),
    Upstream("http", 403, "", TRUE, << >>),
    Upstream("http", 429, "Too Many Requests", TRUE,
             << UpstreamJson(UAbsent, UDetailsObj(UObjNoMsg),
                             UStr(<< "Rate limited" >>), null, null) >>),
    Upstream("http", 422, "Unprocessable Entity", TRUE,
             << UpstreamJson(UStr(<< >>), UNoDetails, UAbsent, null, null) >>),
    Upstream("http", 500, "Internal Server Error", FALSE, << >>) }

\* response.ok
isOk(status) == status >= 200 /\ status <= 299

\* getCookieValue(cookieHeader, name): << >> for null, << value >> otherwise
RECURSIVE getCookieValue(_, _)
getCookieValue(cookieHeader, name) ==
  IF cookieHeader = << >> THEN << >>
  ELSE LET cookie == Head(cookieHeader)
       IN IF cookie.rawName = << >> \/ ~cookie.hasEq
            THEN getCookieValue(Tail(cookieHeader), name)
          ELSE IF join(trim(cookie.rawName)) = name
            THEN << trim(cookie.value) >>
          ELSE getCookieValue(Tail(cookieHeader), name)

\* crypto.randomUUID()
GeneratedUuid == << "uuid-new" >>

\* encodeURIComponent on chunks: a blank is escaped, the characters of an
\* identifier are kept
RECURSIVE encodeURIComponent(_)
encodeURIComponent(chunks) ==
  IF chunks = << >> THEN ""
  ELSE (IF Head(chunks) = WS THEN "%20" ELSE Head(chunks))
         \o encodeURIComponent(Tail(chunks))

serializeSessionCookie(value, production) ==
  SESSION_COOKIE_NAME \o "=" \o encodeURIComponent(value) \o "; Path=/"
    \o "; Max-Age=" \o ToString(SESSION_COOKIE_MAX_AGE)
    \o "; HttpOnly" \o "; SameSite=Lax"
    \o (IF production THEN "; Secure" ELSE "")

\* resolveUserId generating an identifier whatever the request carries
resolveUserIdAlwaysNew(cookieHeader, production) ==
  [userId |-> GeneratedUuid,
   sessionCookie |-> serializeSessionCookie(GeneratedUuid, production)]

\* resolveUserId(request): the user id (chunks) and the cookie to set
resolveUserId(cookieHeader, production) ==
  LET existing == getCookieValue(cookieHeader, SESSION_COOKIE_NAME)
  IN IF existing # << >> /\ existing[1] # << >>
       THEN [userId |-> existing[1], sessionCookie |-> null]
       ELSE [userId |-> GeneratedUuid,
             sessionCookie |-> serializeSessionCookie(GeneratedUuid, production)]

\* safeParseJson(request): << >> for null, << body >> for the parsed object
safeParseJson(body) == IF body.raw = "object" THEN << body >> ELSE << >>

\* a response of the endpoint
Response(status, setCookie, error, secret, expires) ==
  [status |-> status, setCookie |-> setCookie, error |-> error,
   client_secret |-> secret, expires_after |-> expires]

NoRouteResponse == Response(0, null, null, null, null)

NoUpstreamRequest == [workflow |-> "", user |-> ""]

\* no upstream response has been received
NoUpstream == Upstream("none", 0, "", FALSE, << >>)

MissingKeyMsg == "Missing LOCAL_OPENAI_API_KEY or OPENAI_API_KEY environment variable"

RouteIdle(env) ==
  [phase |-> "idle", env |-> env,
   req |-> [cookie |-> << >>, body |-> EmptyBody],
   sessionCookie |-> null, sent |-> NoUpstreamRequest, upstreamCalls |-> 0,
   upstream |-> NoUpstream, resp |-> NoRouteResponse]

DefaultRouteEnv ==
  [LOCAL_OPENAI_API_KEY |-> null, OPENAI_API_KEY |-> "sk-amplify",
   WORKFLOW_ID |-> "wf_default", production |-> TRUE]

\* no setErrorState call has been made
NoUpdates == << >>

\* a caller that holds no cookie and has made no request
NoBrowser == [jar |-> << >>, log |-> << >>]

\* The DOM before any message: the <openai-chatkit> element alone, observed,
\* nothing processed, no mutation record pending, no callback running, no
\* text given to parseWidgetFromText yet.
NoDom ==
  [nodes |-> << [kind |-> "element", cls |-> "openai-chatkit", parent |-> 0,
                 kids |-> << >>, text |-> << >>,
                 payload |-> [found |-> FALSE, widget |-> "",
                              data |-> [t |-> "undefined", s |-> "", m |-> << >>]],
                 by |-> "chatkit"] >>,
   processed |-> {}, queue |-> << >>, roots |-> {}, rendered |-> 0, last |-> 0,
   submitted |-> {},
   scan |-> [active |-> FALSE, added |-> 0, msgEls |-> << >>, cur |-> 0]]

\* parseWidgetFromText has not been called
\* no call of WidgetRenderer yet
\* Bound on the runs of the scanner effect in one behaviour.
MaxRuns == 3

\* One run of the scanner effect: whether it got past its guard, whether its
\* MutationObserver is observing, whether a setTimeout(startObserving, 500)
\* of it is pending, whether its cleanup has run, the mount generation of
\* the element it observes, and whether its callback has run at all (ran)
\* and on an element of an earlier mount generation (late).
NoRun ==
  [started |-> FALSE, observing |-> FALSE, poll |-> FALSE, torn |-> FALSE,
   target |-> 0, ran |-> FALSE, late |-> FALSE]

NoObs ==
  [mounted |-> TRUE, element |-> FALSE, current |-> 0, gen |-> 0,
   run |-> [r \in 1..MaxRuns |-> NoRun]]

NoView ==
  [widget |-> "", data |-> [t |-> "undefined", s |-> "", m |-> << >>],
   called |-> FALSE, result |-> "none"]

NoParse ==
  [text |-> << >>, object |-> "none", called |-> FALSE, result |-> "none"]


\* ------------------------------------------------------------ panel state
\* The part of the component state the handlers below transform.
panel ==
  [errors |-> errors, isInitializingSession |-> isInitializingSession,
   scriptStatus |-> scriptStatus, widgetInstanceKey |-> widgetInstanceKey,
   processedFacts |-> processedFacts]

commit(s) ==
  /\ errors' = s.errors
  /\ isInitializingSession' = s.isInitializingSession
  /\ scriptStatus' = s.scriptStatus
  /\ widgetInstanceKey' = s.widgetInstanceKey
  /\ processedFacts' = s.processedFacts

\* lastCall.resp of a call that issued no request
NoResponse ==
  [kind |-> "none", ok |-> FALSE, statusText |-> "", raw |-> "empty",
   payload |-> EmptyPayload]

\* lastCall: no settlement is waiting to be taken; otherwise outcome is
\* "resolved" or "rejected", value the secret or the error's message, and
\* resp what fetch settled with.
NoCall == [outcome |-> "none", value |-> null, resp |-> NoResponse]

inFlightCount == inFlight[TRUE] + inFlight[FALSE]

\* No effect is waiting to run and no promise reaction is queued: the event
\* loop is free to take the next task.
idle == pendingEffects = {} /\ lastCall = NoCall

\* Effects React runs after a commit that takes the script status to st and
\* the workflow identifier to wf: those whose dependencies changed.
effectsAfter(st, wf) ==
  (IF st # scriptStatus THEN {"script"} ELSE {})
    \cup (IF isWorkflowConfiguredOf(wf) # isWorkflowConfigured
            THEN {"workflow"} ELSE {})

Init ==
  /\ errors = createInitialErrors
  /\ isInitializingSession = TRUE
  /\ isMounted = TRUE
  /\ registered \in BOOLEAN
  /\ scriptStatus = IF registered THEN "ready" ELSE "pending"
  /\ widgetInstanceKey = 0
  /\ workflowId \in DefaultWorkflowIds
  /\ isSettingsOpen = FALSE
  /\ tempWorkflowId = workflowId
  /\ processedFacts = {}
  /\ timerArmed = FALSE
  /\ pendingEffects = {"script", "workflow"}
  /\ inFlight = [b \in BOOLEAN |-> 0]
  /\ lastCall = NoCall
  /\ updates = NoUpdates
  /\ route = RouteIdle(DefaultRouteEnv)
  /\ browser = NoBrowser
  /\ parse = NoParse
  /\ dom = NoDom
  /\ view = NoView
  /\ obs = NoObs
  /\ tool = NoTool

\* ------------------------------------------------------- script readiness
\* handleLoaded that also ends the initialization
handleLoadedEndingInit(s) ==
  IF ~isMounted THEN s
  ELSE [s EXCEPT !.scriptStatus = "ready",
                 !.errors = setErrorState(@, [script |-> null]),
                 !.isInitializingSession = FALSE]

\* handleLoaded that leaves the script error in place
handleLoadedKeepingScriptError(s) ==
  IF ~isMounted THEN s
  ELSE [s EXCEPT !.scriptStatus = "ready"]

\* handleLoaded
handleLoaded(s) ==
  IF ~isMounted THEN s
  ELSE [s EXCEPT !.scriptStatus = "ready",
                 !.errors = setErrorState(@, [script |-> null])]

\* handleError that leaves the initializing flag alone
handleErrorKeepingInit(s, detail) ==
  IF ~isMounted THEN s
  ELSE [s EXCEPT !.scriptStatus = "error",
                 !.errors = setErrorState(@,
                    [script |-> "Error: " \o Nullish(detail, "unknown error"),
                     retryable |-> FALSE])]

handleError(s, detail) ==
  IF ~isMounted THEN s
  ELSE [s EXCEPT !.scriptStatus = "error",
                 !.errors = setErrorState(@,
                    [script |-> "Error: " \o Nullish(detail, "unknown error"),
                     retryable |-> FALSE]),
                 !.isInitializingSession = FALSE]

\* the effect calling handleLoaded without looking at customElements
scriptEffectUnchecked(s) == handleLoaded(s)

\* body of the script readiness effect
scriptEffect(s) == IF registered THEN handleLoaded(s) ELSE s

\* body of the workflow configuration effect
workflowEffect(s) ==
  IF ~isWorkflowConfigured /\ isMounted
    THEN [s EXCEPT !.errors = setErrorState(@,
                      [session |-> MissingWorkflowMsg, retryable |-> FALSE]),
                   !.isInitializingSession = FALSE]
    ELSE s

\* React runs the pending effects, in the order of their definition; the
\* script effect first clears the timeout of its previous run.
FlushEffects ==
  /\ isMounted /\ lastCall = NoCall
  /\ pendingEffects # {}
  /\ LET s1 == IF "script" \in pendingEffects THEN scriptEffect(panel) ELSE panel
         s2 == IF "workflow" \in pendingEffects THEN workflowEffect(s1) ELSE s1
     IN /\ commit(s2)
        /\ timerArmed' = IF "script" \in pendingEffects
                           THEN ~registered /\ scriptStatus = "pending"
                           ELSE timerArmed
        /\ pendingEffects' = effectsAfter(s2.scriptStatus, workflowId)
  /\ UNCHANGED << otherVars, isMounted, workflowId, isSettingsOpen, tempWorkflowId,
                  registered, inFlight, lastCall >>

\* The vendor script defines the openai-chatkit element.
RegisterElement ==
  /\ lastCall = NoCall
  /\ ~registered
  /\ registered' = TRUE
  /\ UNCHANGED << otherVars, errors, isInitializingSession, isMounted, scriptStatus,
                  widgetInstanceKey, workflowId, isSettingsOpen, tempWorkflowId,
                  processedFacts, timerArmed, pendingEffects, inFlight, lastCall >>

\* window event chatkit-script-loaded
ScriptLoadedEvent ==
  /\ isMounted /\ idle
  /\ registered
  /\ LET s == handleLoaded(panel)
     IN commit(s) /\ pendingEffects' = effectsAfter(s.scriptStatus, workflowId)
  /\ UNCHANGED << otherVars, isMounted, workflowId, isSettingsOpen, tempWorkflowId,
                  registered, timerArmed, inFlight, lastCall >>

\* window event chatkit-script-error
ScriptErrorEvent ==
  /\ isMounted /\ idle
  /\ ~registered
  /\ \E detail \in ScriptEventDetails :
       LET s == handleError(panel, detail)
       IN commit(s) /\ pendingEffects' = effectsAfter(s.scriptStatus, workflowId)
  /\ UNCHANGED << otherVars, isMounted, workflowId, isSettingsOpen, tempWorkflowId,
                  registered, timerArmed, inFlight, lastCall >>

\* the 5 s timeout of the script readiness effect fires
ScriptTimeout ==
  /\ isMounted /\ idle
  /\ timerArmed
  /\ timerArmed' = FALSE
  /\ LET s == IF ~registered THEN handleError(panel, ScriptUnavailableDetail)
                             ELSE panel
     IN commit(s) /\ pendingEffects' = effectsAfter(s.scriptStatus, workflowId)
  /\ UNCHANGED << otherVars, isMounted, workflowId, isSettingsOpen, tempWorkflowId,
                  registered, inFlight, lastCall >>

\* ------------------------------------------------------------- full reset
\* handleResetChat that flips the initializing flag instead of setting it
handleResetChatToggling(s) ==
  [s EXCEPT !.processedFacts = {},
            !.scriptStatus = IF registered THEN "ready" ELSE "pending",
            !.isInitializingSession = ~@,
            !.errors = createInitialErrors,
            !.widgetInstanceKey = @ + 1]

\* handleResetChat that keeps the error state
handleResetChatKeepingErrors(s) ==
  [s EXCEPT !.processedFacts = {},
            !.scriptStatus = IF registered THEN "ready" ELSE "pending",
            !.isInitializingSession = TRUE,
            !.widgetInstanceKey = @ + 1]

handleResetChat(s) ==
  [s EXCEPT !.processedFacts = {},
            !.scriptStatus = IF registered THEN "ready" ELSE "pending",
            !.isInitializingSession = TRUE,
            !.errors = createInitialErrors,
            !.widgetInstanceKey = @ + 1]

\* click on the overlay's retry button
RetryClick ==
  /\ isMounted /\ idle
  /\ overlay.button
  /\ widgetInstanceKey < MaxResets
  /\ LET s == handleResetChat(panel)
     IN commit(s) /\ pendingEffects' = effectsAfter(s.scriptStatus, workflowId)
  /\ UNCHANGED << otherVars, isMounted, workflowId, isSettingsOpen, tempWorkflowId,
                  registered, timerArmed, inFlight, lastCall >>

\* --------------------------------------------------------------- settings
\* the settings button opening the modal on the scratch copy as it was left
OpenSettingsKeepingScratch ==
  /\ isMounted /\ idle
  /\ ~isSettingsOpen
  /\ isSettingsOpen' = TRUE
  /\ UNCHANGED << otherVars, errors, isInitializingSession, isMounted, scriptStatus,
                  widgetInstanceKey, workflowId, tempWorkflowId, processedFacts,
                  registered, timerArmed, pendingEffects, inFlight, lastCall >>

\* click on the settings button
OpenSettings ==
  /\ isMounted /\ idle
  /\ ~isSettingsOpen
  /\ tempWorkflowId' = workflowId
  /\ isSettingsOpen' = TRUE
  /\ UNCHANGED << otherVars, errors, isInitializingSession, isMounted, scriptStatus,
                  widgetInstanceKey, workflowId, processedFacts, registered,
                  timerArmed, pendingEffects, inFlight, lastCall >>

\* onChange of the workflow input
EditWorkflowId ==
  /\ isMounted /\ idle
  /\ isSettingsOpen
  /\ \E text \in TypedTexts : tempWorkflowId' = text
  /\ UNCHANGED << otherVars, errors, isInitializingSession, isMounted, scriptStatus,
                  widgetInstanceKey, workflowId, isSettingsOpen, processedFacts,
                  registered, timerArmed, pendingEffects, inFlight, lastCall >>

\* Cancel button or click on the backdrop
CancelSettings ==
  /\ isMounted /\ idle
  /\ isSettingsOpen
  /\ isSettingsOpen' = FALSE
  /\ UNCHANGED << otherVars, errors, isInitializingSession, isMounted, scriptStatus,
                  widgetInstanceKey, workflowId, tempWorkflowId, processedFacts,
                  registered, timerArmed, pendingEffects, inFlight, lastCall >>

\* handleWorkflowIdChange that resets only when the identifier changes
SaveSettingsIfChanged ==
  /\ isMounted /\ idle
  /\ isSettingsOpen
  /\ widgetInstanceKey < MaxResets
  /\ workflowId' = trim(tempWorkflowId)
  /\ isSettingsOpen' = FALSE
  /\ LET s == IF workflowId' = workflowId THEN panel ELSE handleResetChat(panel)
     IN commit(s) /\ pendingEffects' = effectsAfter(s.scriptStatus, workflowId')
  /\ UNCHANGED << otherVars, isMounted, tempWorkflowId, registered, timerArmed, inFlight,
                  lastCall >>

\* handleWorkflowIdChange (Save & Restart)
SaveSettings ==
  /\ isMounted /\ idle
  /\ isSettingsOpen
  /\ widgetInstanceKey < MaxResets
  /\ workflowId' = trim(tempWorkflowId)
  /\ isSettingsOpen' = FALSE
  /\ LET s == handleResetChat(panel)
     IN commit(s) /\ pendingEffects' = effectsAfter(s.scriptStatus, workflowId')
  /\ UNCHANGED << otherVars, isMounted, tempWorkflowId, registered, timerArmed, inFlight,
                  lastCall >>

\* ----------------------------------------------------- credential request
\* getClientSecret up to its await of fetch; hasSecret: currentSecret is set
GetClientSecret ==
  /\ registered /\ idle
  /\ \E hasSecret \in BOOLEAN :
       IF ~isWorkflowConfigured
         THEN /\ lastCall' = [NoCall EXCEPT !.outcome = "rejected",
                                            !.value = MissingWorkflowMsg]
              /\ IF isMounted
                   THEN /\ errors' = setErrorState(errors,
                              [session |-> MissingWorkflowMsg, retryable |-> FALSE])
                        /\ isInitializingSession' = FALSE
                   ELSE UNCHANGED << errors, isInitializingSession >>
              /\ UNCHANGED inFlight
         ELSE /\ inFlightCount < MaxInFlight
              /\ IF isMounted
                   THEN /\ isInitializingSession' =
                             IF ~hasSecret THEN TRUE ELSE isInitializingSession
                        /\ errors' = setErrorState(errors,
                              [session |-> null, integration |-> null,
                               retryable |-> FALSE])
                   ELSE UNCHANGED << errors, isInitializingSession >>
              /\ inFlight' = [inFlight EXCEPT ![hasSecret] = @ + 1]
              /\ UNCHANGED lastCall
  /\ UNCHANGED << otherVars, isMounted, scriptStatus, widgetInstanceKey, workflowId,
                  isSettingsOpen, tempWorkflowId, processedFacts, registered,
                  timerArmed, pendingEffects >>

\* settlement that does not look at response.ok
settlementIgnoringStatus(resp) ==
  LET data == parseData(resp)
      clientSecret == clientSecretOf(data)
      thrown == IF resp.kind = "network" THEN FailedToFetchMsg
                ELSE IF Falsy(clientSecret) THEN MissingSecretMsg
                ELSE null
  IN [thrown |-> thrown, clientSecret |-> clientSecret]

\* What the rest of getClientSecret does with what fetch settled with:
\* thrown is the message of the error it throws, null when it returns.
settlement(resp) ==
  LET data == parseData(resp)
      clientSecret == clientSecretOf(data)
      thrown == IF resp.kind = "network" THEN FailedToFetchMsg
                ELSE IF ~resp.ok THEN extractErrorDetail(data, resp.statusText)
                ELSE IF Falsy(clientSecret) THEN MissingSecretMsg
                ELSE null
  IN [thrown |-> thrown, clientSecret |-> clientSecret]

\* the settlement with a finally block that does not test isMountedRef
FetchSettlesUnguardedFinally ==
  /\ idle
  /\ \E hasSecret \in BOOLEAN, resp \in FetchOutcomes :
       /\ inFlight[hasSecret] > 0
       /\ inFlight' = [inFlight EXCEPT ![hasSecret] = @ - 1]
       /\ LET r == settlement(resp)
          IN /\ lastCall' =
                  [outcome |-> IF r.thrown = null THEN "resolved" ELSE "rejected",
                   value |-> IF r.thrown = null THEN r.clientSecret ELSE r.thrown,
                   resp |-> resp]
             /\ errors' =
                  IF ~isMounted THEN errors
                  ELSE IF r.thrown = null
                    THEN setErrorState(errors, [session |-> null, integration |-> null])
                  ELSE setErrorState(errors, [session |-> r.thrown, retryable |-> FALSE])
             /\ isInitializingSession' =
                  IF ~hasSecret THEN FALSE ELSE isInitializingSession
  /\ UNCHANGED << otherVars, isMounted, scriptStatus, widgetInstanceKey, workflowId,
                  isSettingsOpen, tempWorkflowId, processedFacts, registered,
                  timerArmed, pendingEffects >>

\* getClientSecret after its await: try, catch and finally
\* a completion whose finally block leaves the initializing flag alone
FetchSettlesKeepingInit ==
  /\ idle
  /\ \E hasSecret \in BOOLEAN, resp \in FetchOutcomes :
       /\ inFlight[hasSecret] > 0
       /\ inFlight' = [inFlight EXCEPT ![hasSecret] = @ - 1]
       /\ LET r == settlement(resp)
          IN /\ lastCall' =
                  [outcome |-> IF r.thrown = null THEN "resolved" ELSE "rejected",
                   value |-> IF r.thrown = null THEN r.clientSecret ELSE r.thrown,
                   resp |-> resp]
             /\ IF isMounted
                  THEN errors' =
                         IF r.thrown = null
                           THEN setErrorState(errors,
                                  [session |-> null, integration |-> null])
                           ELSE setErrorState(errors,
                                  [session |-> r.thrown, retryable |-> FALSE])
                  ELSE UNCHANGED errors
  /\ UNCHANGED << otherVars, isInitializingSession, isMounted, scriptStatus,
                  widgetInstanceKey, workflowId, isSettingsOpen, tempWorkflowId,
                  processedFacts, registered, timerArmed, pendingEffects >>

\* The fetch of a request in flight settles: the rest of getClientSecret
\* runs, its catch and finally blocks included.
FetchSettles ==
  /\ idle
  /\ \E hasSecret \in BOOLEAN, resp \in FetchOutcomes :
       /\ inFlight[hasSecret] > 0
       /\ inFlight' = [inFlight EXCEPT ![hasSecret] = @ - 1]
       /\ LET r == settlement(resp)
          IN /\ lastCall' =
                  [outcome |-> IF r.thrown = null THEN "resolved" ELSE "rejected",
                   value |-> IF r.thrown = null THEN r.clientSecret ELSE r.thrown,
                   resp |-> resp]
             /\ IF isMounted
                  THEN /\ errors' =
                            IF r.thrown = null
                              THEN setErrorState(errors,
                                     [session |-> null, integration |-> null])
                              ELSE setErrorState(errors,
                                     [session |-> r.thrown, retryable |-> FALSE])
                       /\ isInitializingSession' =
                            IF ~hasSecret THEN FALSE ELSE isInitializingSession
                  ELSE UNCHANGED << errors, isInitializingSession >>
  /\ UNCHANGED << otherVars, isMounted, scriptStatus, widgetInstanceKey, workflowId,
                  isSettingsOpen, tempWorkflowId, processedFacts, registered,
                  timerArmed, pendingEffects >>

\* The embedded widget, awaiting getClientSecret, takes the settlement.
PromiseReaction ==
  /\ lastCall # NoCall
  /\ lastCall' = NoCall
  /\ UNCHANGED << otherVars, errors, isInitializingSession, isMounted, scriptStatus,
                  widgetInstanceKey, workflowId, isSettingsOpen, tempWorkflowId,
                  processedFacts, registered, timerArmed, pendingEffects, inFlight >>

\* ------------------------------------------------ embedded widget callbacks
\* onResponseStart; React drops the update of an unmounted component
OnResponseStart ==
  /\ registered /\ idle
  /\ errors' = IF isMounted
                 THEN setErrorState(errors, [integration |-> null, retryable |-> FALSE])
                 ELSE errors
  /\ UNCHANGED << otherVars, isInitializingSession, isMounted, scriptStatus, widgetInstanceKey,
                  workflowId, isSettingsOpen, tempWorkflowId, processedFacts,
                  registered, timerArmed, pendingEffects, inFlight, lastCall >>

\* onError({ error })
OnError ==
  /\ registered /\ idle
  /\ \E error \in VendorErrors :
       errors' =
         IF isDomainVerificationError(error)
           THEN IF isMounted
                  THEN setErrorState(errors,
                         [integration |-> DomainVerificationMsg, retryable |-> TRUE])
                  ELSE errors
           ELSE IF error.isError /\ isMounted
                  THEN setErrorState(errors,
                         [integration |-> join(error.message), retryable |-> TRUE])
                  ELSE errors
  /\ UNCHANGED << otherVars, isInitializingSession, isMounted, scriptStatus, widgetInstanceKey,
                  workflowId, isSettingsOpen, tempWorkflowId, processedFacts,
                  registered, timerArmed, pendingEffects, inFlight, lastCall >>

\* onThreadChange
OnThreadChange ==
  /\ registered /\ idle
  /\ processedFacts' = {}
  /\ UNCHANGED << otherVars, errors, isInitializingSession, isMounted, scriptStatus,
                  widgetInstanceKey, workflowId, isSettingsOpen, tempWorkflowId,
                  registered, timerArmed, pendingEffects, inFlight, lastCall >>

\* onClientTool for record_fact
OnRecordFact ==
  /\ registered /\ idle
  /\ \E id \in FactIds :
       processedFacts' = recordFact(processedFacts, id).processed
  /\ UNCHANGED << otherVars, errors, isInitializingSession, isMounted, scriptStatus,
                  widgetInstanceKey, workflowId, isSettingsOpen, tempWorkflowId,
                  registered, timerArmed, pendingEffects, inFlight, lastCall >>

\* ---------------------------------------------------------------- teardown
\* The panel unmounts: effect cleanups run.
Unmount ==
  /\ isMounted /\ lastCall = NoCall
  /\ isMounted' = FALSE
  /\ timerArmed' = FALSE
  /\ pendingEffects' = {}
  /\ UNCHANGED << otherVars, errors, isInitializingSession, scriptStatus, widgetInstanceKey,
                  workflowId, isSettingsOpen, tempWorkflowId, processedFacts,
                  registered, inFlight, lastCall >>

Next ==
  \/ FlushEffects
  \/ RegisterElement
  \/ ScriptLoadedEvent
  \/ ScriptErrorEvent
  \/ ScriptTimeout
  \/ RetryClick
  \/ OpenSettings
  \/ EditWorkflowId
  \/ CancelSettings
  \/ SaveSettings
  \/ GetClientSecret
  \/ FetchSettles
  \/ PromiseReaction
  \/ OnResponseStart
  \/ OnError
  \/ OnThreadChange
  \/ OnRecordFact
  \/ Unmount

Spec == Init /\ [][Next]_vars

\* React runs the effects of a commit, and an armed timeout fires.
PanelFairSpec ==
  /\ Spec
  /\ WF_vars(FlushEffects)
  /\ WF_vars(ScriptTimeout)

\* the embedded widget asks for a secret it does not have yet
InitialRequest ==
  GetClientSecret /\ (inFlight'[FALSE] # inFlight[FALSE] \/ lastCall' # lastCall)

\* a request made without a current secret completes
InitialSettles == FetchSettles /\ inFlight'[FALSE] # inFlight[FALSE]

\* a request made with a current secret completes
RefreshSettles == FetchSettles /\ inFlight'[TRUE] # inFlight[TRUE]

\* The steps that bear on the loading state: those of Next without the
\* steps that only write processedFacts (the fact tool, a thread change) or
\* only close the settings modal.
LoadNext ==
  \/ FlushEffects
  \/ RegisterElement
  \/ ScriptLoadedEvent
  \/ ScriptErrorEvent
  \/ ScriptTimeout
  \/ RetryClick
  \/ OpenSettings
  \/ EditWorkflowId
  \/ SaveSettings
  \/ GetClientSecret
  \/ FetchSettles
  \/ PromiseReaction
  \/ OnResponseStart
  \/ OnError
  \/ Unmount

\* Effects are flushed, a pending timer fires, a request in flight completes
\* and its settlement is taken, and a mounted widget that has no secret asks
\* for one.
LoadFairSpec ==
  /\ Init /\ [][LoadNext]_vars
  /\ WF_vars(FlushEffects) /\ WF_vars(ScriptTimeout) /\ WF_vars(PromiseReaction)
  /\ SF_vars(InitialSettles) /\ SF_vars(RefreshSettles)
  /\ SF_vars(InitialRequest)

\* ------------------------------------------------- create-session: POST
\* openaiApiKey read from LOCAL_OPENAI_API_KEY alone
openaiApiKeyLocalOnly(env) == env.LOCAL_OPENAI_API_KEY

\* process.env.LOCAL_OPENAI_API_KEY || process.env.OPENAI_API_KEY
openaiApiKeyOf(env) == OrElse(env.LOCAL_OPENAI_API_KEY, env.OPENAI_API_KEY)

\* parsedBody?.user?.trim(), << >> when undefined or empty
bodyUserOf(parsedBody) ==
  IF parsedBody # << >> /\ parsedBody[1].user.t = "string"
    THEN trim(parsedBody[1].user.s) ELSE << >>

\* parsedBody?.workflow?.id ?? parsedBody?.workflowId ?? WORKFLOW_ID
resolvedWorkflowIdOf(parsedBody, env) ==
  IF parsedBody = << >> THEN env.WORKFLOW_ID
  ELSE LET b == parsedBody[1]
       IN IF b.workflow.t = "object" /\ b.workflow.id.t = "string"
            THEN join(b.workflow.id.s)
          ELSE IF b.workflowId.t = "string" THEN join(b.workflowId.s)
          ELSE env.WORKFLOW_ID

\* extractUpstreamError(payload): << >> for null, << chunks >> for a string
extractUpstreamError(data) ==
  IF data = << >> THEN << >>
  ELSE LET payload == data[1]
           error == payload.error
           details == payload.details
           nestedError == details.e
       IN IF error.t = "string" THEN error.s
          ELSE IF error.t = "object" /\ error.s # << >> THEN error.s
          ELSE IF details.t = "string" THEN details.s
          ELSE IF details.t = "object" /\ nestedError.t = "string" THEN nestedError.s
          ELSE IF details.t = "object" /\ nestedError.t = "object"
                    /\ nestedError.s # << >> THEN nestedError.s
          ELSE IF payload.message.t = "string" THEN payload.message.s
          ELSE << >>

WorkflowNotFoundMsg(wf) ==
  "Workflow not found: " \o wf \o ". Please verify: 1) The workflow ID is correct, "
    \o "2) The workflow is published in Agent Builder, 3) The API key has access "
    \o "to this workflow in the same organization/project."

AuthFailedMsg(status) ==
  "Authentication failed. Please verify your LOCAL_OPENAI_API_KEY is correct and "
    \o "has access to the workflow. Status: " \o ToString(status)

\* the authentication hint tested before the not-found hint
helpfulMessageAuthFirst(errorMessage, status, resolvedWorkflowId) ==
  IF status = 401 \/ status = 403 THEN AuthFailedMsg(status)
  ELSE IF includes(errorMessage, "not found")
    THEN WorkflowNotFoundMsg(resolvedWorkflowId)
  ELSE join(errorMessage)

\* helpfulMessage of the upstream error path
helpfulMessageOf(errorMessage, status, resolvedWorkflowId) ==
  IF includes(errorMessage, "not found")
    THEN WorkflowNotFoundMsg(resolvedWorkflowId)
  ELSE IF status = 401 \/ status = 403 THEN AuthFailedMsg(status)
  ELSE join(errorMessage)

\* A request reaches the endpoint.
RouteRequest ==
  /\ route.phase \in {"idle", "done"}
  /\ \E cookie \in CookieHeaders, body \in RequestBodies :
       route' = [RouteIdle(route.env) EXCEPT
                   !.phase = "received",
                   !.req = [cookie |-> cookie, body |-> body]]
  /\ UNCHANGED << panelVars, updates, browser, parse, dom, view, obs, tool >>

\* POST up to its await of the upstream fetch
RoutePOST ==
  /\ route.phase = "received"
  /\ LET env == route.env
         parsedBody == safeParseJson(route.req.body)
         resolved == resolveUserId(route.req.cookie, env.production)
         bodyUser == bodyUserOf(parsedBody)
         userId == IF bodyUser # << >> THEN bodyUser ELSE resolved.userId
         resolvedWorkflowId == resolvedWorkflowIdOf(parsedBody, env)
     IN IF Falsy(openaiApiKeyOf(env))
          THEN route' = [route EXCEPT
                           !.phase = "done",
                           !.resp = Response(500, null, MissingKeyMsg, null, null)]
        ELSE IF resolvedWorkflowId = ""
          THEN route' = [route EXCEPT
                           !.phase = "done",
                           !.sessionCookie = resolved.sessionCookie,
                           !.resp = Response(400, resolved.sessionCookie,
                                             "Missing workflow id", null, null)]
        ELSE IF userId = << >> \/ trim(userId) = << >>
          THEN route' = [route EXCEPT
                           !.phase = "done",
                           !.sessionCookie = resolved.sessionCookie,
                           !.resp = Response(400, resolved.sessionCookie,
                                             "Missing or empty user id", null, null)]
        ELSE route' = [route EXCEPT
                         !.phase = "upstream",
                         !.sessionCookie = resolved.sessionCookie,
                         !.sent = [workflow |-> resolvedWorkflowId,
                                   user |-> join(userId)],
                         !.upstreamCalls = @ + 1]
  /\ UNCHANGED << panelVars, updates, browser, parse, dom, view, obs, tool >>

\* POST after its await: the upstream answer is turned into the response
RouteUpstreamSettles ==
  /\ route.phase = "upstream"
  /\ \E u \in UpstreamOutcomes :
       LET upstreamJson == IF u.parses THEN u.json ELSE << EmptyJson >>
           upstreamError == extractUpstreamError(upstreamJson)
           errorMessage == IF upstreamError # << >> THEN upstreamError[1]
                           ELSE << "Failed to create session: ", u.statusText >>
           helpfulMessage ==
             helpfulMessageOf(errorMessage, u.status, route.sent.workflow)
       IN route' =
            [route EXCEPT
               !.phase = "done",
               !.upstream = u,
               !.resp =
                 IF u.kind = "network"
                   THEN Response(500, route.sessionCookie, "Unexpected error",
                                 null, null)
                 ELSE IF ~isOk(u.status)
                   THEN Response(u.status, route.sessionCookie, helpfulMessage,
                                 null, null)
                 ELSE IF upstreamJson = << >>
                   THEN Response(200, route.sessionCookie, null, null, null)
                 ELSE Response(200, route.sessionCookie, null,
                               upstreamJson[1].client_secret,
                               upstreamJson[1].expires_after)]
  /\ UNCHANGED << panelVars, updates, browser, parse, dom, view, obs, tool >>

\* The panel as constructed, for the specifications that do not run it.
PanelAtRest ==
  /\ errors = createInitialErrors
  /\ isInitializingSession = TRUE
  /\ isMounted = TRUE
  /\ registered = FALSE
  /\ scriptStatus = "pending"
  /\ widgetInstanceKey = 0
  /\ workflowId = << OTHER_TEXT >>
  /\ isSettingsOpen = FALSE
  /\ tempWorkflowId = << OTHER_TEXT >>
  /\ processedFacts = {}
  /\ timerArmed = FALSE
  /\ pendingEffects = {"script", "workflow"}
  /\ inFlight = [b \in BOOLEAN |-> 0]
  /\ lastCall = NoCall

RouteInit ==
  /\ PanelAtRest
  /\ updates = NoUpdates
  /\ \E env \in RouteEnvs : route = RouteIdle(env)
  /\ browser = NoBrowser
  /\ parse = NoParse
  /\ dom = NoDom
  /\ view = NoView
  /\ obs = NoObs
  /\ tool = NoTool

RouteNext ==
  \/ RouteRequest
  \/ RoutePOST
  \/ RouteUpstreamSettles

RouteSpec == RouteInit /\ [][RouteNext]_vars

\* ------------------------------------------- a caller across its requests
\* window.crypto.randomUUID() in the panel: any of these on each call
ClientUuids == {"user-a", "user-b"}

\* The Cookie header the caller sends: its other cookies, then the identity
\* cookie of its jar when it holds one.
cookieHeaderOf(jar, others) ==
  others \o (IF jar = << >> THEN << >>
             ELSE << Cookie(<< SESSION_COOKIE_NAME >>, TRUE, jar[1]) >>)

OtherCookies == { << >>, << Cookie(<< "theme" >>, TRUE, << "dark" >>) >> }

\* The value the caller stores from a Set-Cookie header: the text between
\* the name's "=" and the first ";", as the endpoint serialized it.
storedCookieValue(setCookie) ==
  LET v == CHOOSE v \in {GeneratedUuid, << WS, "uuid-new" >>} :
             \E production \in BOOLEAN :
               serializeSessionCookie(v, production) = setCookie
  IN << encodeURIComponent(v) >>

\* The body the panel posts: a fresh user id and the committed workflow id.
panelBody(userId, wf) ==
  Body("object", Text(<< userId >>), Workflow(Text(wf)), NoField)

\* getClientSecret's fetch of the endpoint, from a configured panel
PanelFetch ==
  /\ route.phase = "idle"
  /\ Len(browser.log) < MaxRequests
  /\ \E userId \in ClientUuids :
       route' = [RouteIdle(route.env) EXCEPT
                   !.phase = "received",
                   !.req = [cookie |-> cookieHeaderOf(browser.jar, << >>),
                            body |-> panelBody(userId, << OTHER_TEXT >>)]]
  /\ UNCHANGED << panelVars, updates, browser, parse, dom, view, obs, tool >>

\* Any other request of the same caller: the body names no user.
CallerFetch ==
  /\ route.phase = "idle"
  /\ Len(browser.log) < MaxRequests
  /\ \E body \in {b \in RequestBodies :
                      b.user.t # "string" /\ b.raw \in {"empty", "object"}},
        others \in OtherCookies :
       route' = [RouteIdle(route.env) EXCEPT
                   !.phase = "received",
                   !.req = [cookie |-> cookieHeaderOf(browser.jar, others),
                            body |-> body]]
  /\ UNCHANGED << panelVars, updates, browser, parse, dom, view, obs, tool >>

\* The caller receives the response: a Set-Cookie header replaces the
\* identity cookie of its jar.
BrowserReceives ==
  /\ route.phase = "done"
  /\ browser' =
       [jar |-> IF route.resp.setCookie = null THEN browser.jar
                ELSE << storedCookieValue(route.resp.setCookie) >>,
        log |-> Append(browser.log,
                       [cookie |-> route.req.cookie,
                        panel |-> route.req.body.user.t = "string",
                        created |-> route.resp.status = 200,
                        setCookie |-> route.resp.setCookie,
                        forwarded |-> IF route.upstreamCalls = 0 THEN << >>
                                      ELSE << route.sent.user >>])]
  /\ route' = RouteIdle(route.env)
  /\ UNCHANGED << panelVars, updates, parse, dom, view, obs, tool >>

BrowserInit == RouteInit

BrowserNext ==
  \/ PanelFetch
  \/ CallerFetch
  \/ RoutePOST
  \/ RouteUpstreamSettles
  \/ BrowserReceives

BrowserSpec == BrowserInit /\ [][BrowserNext]_vars

\* ------------------------------------------------ error-state merge alone
\* values of the three message fields, and the partial updates over them
MergeMsgs == {null, "", "Widget crashed"}

ErrorStates ==
  [script : MergeMsgs, session : MergeMsgs, integration : MergeMsgs,
   retryable : BOOLEAN]

PartialUpdates ==
  UNION { { [f \in D |-> full[f]] : full \in ErrorStates } : D \in SUBSET ErrorFields }

\* setErrorState(partial), from any error state and for any partial
SetErrorStateCall ==
  /\ \E partial \in PartialUpdates :
       /\ updates' = partial
       /\ errors' = setErrorState(errors, partial)
  /\ UNCHANGED << isInitializingSession, isMounted, scriptStatus, widgetInstanceKey,
                  workflowId, isSettingsOpen, tempWorkflowId, processedFacts,
                  registered, timerArmed, pendingEffects, inFlight, lastCall,
                  route, browser, parse, dom, view, obs, tool >>

MergeInit ==
  /\ errors \in ErrorStates
  /\ isInitializingSession = TRUE
  /\ isMounted = TRUE
  /\ registered = FALSE
  /\ scriptStatus = "pending"
  /\ widgetInstanceKey = 0
  /\ workflowId = << OTHER_TEXT >>
  /\ isSettingsOpen = FALSE
  /\ tempWorkflowId = << OTHER_TEXT >>
  /\ processedFacts = {}
  /\ timerArmed = FALSE
  /\ pendingEffects = {"script", "workflow"}
  /\ inFlight = [b \in BOOLEAN |-> 0]
  /\ lastCall = NoCall
  /\ updates = NoUpdates
  /\ route = RouteIdle(DefaultRouteEnv)
  /\ browser = NoBrowser
  /\ parse = NoParse
  /\ dom = NoDom
  /\ view = NoView
  /\ obs = NoObs
  /\ tool = NoTool

MergeNext == SetErrorStateCall

MergeSpec == MergeInit /\ [][MergeNext]_vars

\* ----------------------------------------------------- parseWidgetFromText
\* A text is a sequence of tokens: punctuation, whitespace, string literals
\* (v is the content between the quotes), numbers and words.
P(c) == [k |-> "p", v |-> c]
Sp == [k |-> "ws", v |-> " "]
S(v) == [k |-> "s", v |-> v]
N(v) == [k |-> "n", v |-> v]
W(v) == [k |-> "w", v |-> v]
EndTok == [k |-> "end", v |-> ""]

\* the string contents that hold a "}" character
CloseBraceTexts == {"use } to close"}

\* the token holds a "}" character, a "{" character
hasClose(tok) == tok = P("}") \/ (tok.k = "s" /\ tok.v \in CloseBraceTexts)
hasOpen(tok) == tok = P("{")

tokAt(text, i) == IF i >= 1 /\ i <= Len(text) THEN text[i] ELSE EndTok

\* [\s\n]* from position i: the position of the first token that is not blank
RECURSIVE skipWS(_, _)
skipWS(text, i) == IF tokAt(text, i).k = "ws" THEN skipWS(text, i + 1) ELSE i

\* JSON values: t is the type, s the text of a string, number or literal,
\* m the members of an object ([key, val]) or the elements of an array
JStr(v) == [t |-> "string", s |-> v, m |-> << >>]
JNum(v) == [t |-> "number", s |-> v, m |-> << >>]
JBool(v) == [t |-> "boolean", s |-> v, m |-> << >>]
JNull == [t |-> "null", s |-> "null", m |-> << >>]
JObj(members) == [t |-> "object", s |-> "", m |-> members]
JArr(elements) == [t |-> "array", s |-> "", m |-> elements]
JUndefined == [t |-> "undefined", s |-> "", m |-> << >>]
Member(key, val) == [key |-> key, val |-> val]

\* result of a parsing step: ok, the value and the position after it
Parsed(val, next) == [ok |-> TRUE, val |-> val, next |-> next]
SyntaxError == [ok |-> FALSE, val |-> JUndefined, next |-> 0]

\* JSON.parse, by recursive descent over the tokens
RECURSIVE parseValue(_, _)
RECURSIVE parseMembers(_, _, _)
RECURSIVE parseElements(_, _, _)
parseValue(text, i) ==
  LET j == skipWS(text, i)
      tk == tokAt(text, j)
  IN IF tk.k = "s" THEN Parsed(JStr(tk.v), j + 1)
     ELSE IF tk.k = "n" THEN Parsed(JNum(tk.v), j + 1)
     ELSE IF tk.k = "w" /\ tk.v \in {"true", "false"} THEN Parsed(JBool(tk.v), j + 1)
     ELSE IF tk = W("null") THEN Parsed(JNull, j + 1)
     ELSE IF tk = P("{")
       THEN IF tokAt(text, skipWS(text, j + 1)) = P("}")
              THEN Parsed(JObj(<< >>), skipWS(text, j + 1) + 1)
            ELSE parseMembers(text, j + 1, << >>)
     ELSE IF tk = P("[")
       THEN IF tokAt(text, skipWS(text, j + 1)) = P("]")
              THEN Parsed(JArr(<< >>), skipWS(text, j + 1) + 1)
            ELSE parseElements(text, j + 1, << >>)
     ELSE SyntaxError

parseMembers(text, i, acc) ==
  LET k == skipWS(text, i)
      c == skipWS(text, k + 1)
      r == parseValue(text, c + 1)
      e == skipWS(text, r.next)
      members == Append(acc, Member(tokAt(text, k).v, r.val))
  IN IF tokAt(text, k).k # "s" \/ tokAt(text, c) # P(":") THEN SyntaxError
     ELSE IF ~r.ok THEN SyntaxError
     ELSE IF tokAt(text, e) = P(",") THEN parseMembers(text, e + 1, members)
     ELSE IF tokAt(text, e) = P("}") THEN Parsed(JObj(members), e + 1)
     ELSE SyntaxError

parseElements(text, i, acc) ==
  LET r == parseValue(text, i)
      e == skipWS(text, r.next)
      elements == Append(acc, r.val)
  IN IF ~r.ok THEN SyntaxError
     ELSE IF tokAt(text, e) = P(",") THEN parseElements(text, e + 1, elements)
     ELSE IF tokAt(text, e) = P("]") THEN Parsed(JArr(elements), e + 1)
     ELSE SyntaxError

\* JSON.parse(text): << >> when it throws, << value >> otherwise
JSONparse(text) ==
  LET r == parseValue(text, 1)
  IN IF r.ok /\ skipWS(text, r.next) = Len(text) + 1 THEN << r.val >> ELSE << >>

\* value[key]: the last member of that name, undefined when there is none
\* or the value is not an object
RECURSIVE memberOf(_, _, _)
memberOf(members, key, n) ==
  IF n = 0 THEN JUndefined
  ELSE IF members[n].key = key THEN members[n].val
  ELSE memberOf(members, key, n - 1)

getField(value, key) ==
  IF value.t = "object" THEN memberOf(value.m, key, Len(value.m)) ELSE JUndefined

\* JavaScript truthiness of a JSON value
truthy(value) ==
  IF value.t \in {"undefined", "null"} THEN FALSE
  ELSE IF value.t = "string" THEN value.s # ""
  ELSE IF value.t = "number" THEN value.s # "0"
  ELSE IF value.t = "boolean" THEN value.s = "true"
  ELSE TRUE

\* String(value); an array joins the strings of its elements with ","
RECURSIVE toString(_)
RECURSIVE joinElements(_)
toString(value) ==
  IF value.t = "object" THEN "[object Object]"
  ELSE IF value.t = "array" THEN joinElements(value.m)
  ELSE value.s

joinElements(elements) ==
  IF elements = << >> THEN ""
  ELSE (IF Head(elements).t \in {"null", "undefined"} THEN ""
        ELSE toString(Head(elements)))
         \o (IF Len(elements) > 1 THEN "," ELSE "")
         \o joinElements(Tail(elements))

\* The common head of both patterns, matched from position i:
\*   \{ \s* "widget" \s* : \s* "[^"]+" \s* , \s* "data" \s* : \s* \{
\* The position after the brace that opens data, 0 when there is no match.
patternHead(text, i) ==
  LET b == skipWS(text, i + 1)
      c == skipWS(text, b + 1)
      d == skipWS(text, c + 1)
      e == skipWS(text, d + 1)
      f == skipWS(text, e + 1)
      g == skipWS(text, f + 1)
      h == skipWS(text, g + 1)
  IN IF /\ tokAt(text, i) = P("{")
        /\ tokAt(text, b) = S("widget")
        /\ tokAt(text, c) = P(":")
        /\ tokAt(text, d).k = "s" /\ tokAt(text, d).v # ""
        /\ tokAt(text, e) = P(",")
        /\ tokAt(text, f) = S("data")
        /\ tokAt(text, g) = P(":")
        /\ tokAt(text, h) = P("{")
       THEN h + 1 ELSE 0

\* [^}]*\} from position i: the position of the first token at or after i
\* that holds a "}" character, 0 when there is none
RECURSIVE firstClose(_, _)
firstClose(text, i) ==
  IF i > Len(text) THEN 0
  ELSE IF hasClose(text[i]) THEN i
  ELSE firstClose(text, i + 1)

\* A match of a pattern: from and to are its first and last token, whole is
\* FALSE when it ends inside a string literal.
Match(from, to, whole) == [found |-> TRUE, from |-> from, to |-> to, whole |-> whole]
NoMatch == [found |-> FALSE, from |-> 0, to |-> 0, whole |-> FALSE]

\* jsonPatterns[0] at position i: the head, [^}]*\} \s* \}
flatPatternAt(text, i) ==
  LET k == patternHead(text, i)
      c1 == firstClose(text, k)
      end == skipWS(text, c1 + 1)
  IN IF k > 0 /\ c1 > 0 /\ text[c1] = P("}") /\ tokAt(text, end) = P("}")
       THEN Match(i, end, TRUE) ELSE NoMatch

\* jsonPatterns[1] at position i: the head, [^}]*\{ [^}]*\} [^}]*\} [^}]*\}
nestedPatternAt(text, i) ==
  LET k == patternHead(text, i)
      c1 == firstClose(text, k)
      c2 == firstClose(text, c1 + 1)
      c3 == firstClose(text, c2 + 1)
  IN IF /\ k > 0 /\ c1 > 0
        /\ \E o \in k..(c1 - 1) : hasOpen(text[o])
        /\ c2 > 0 /\ c3 > 0
       THEN Match(i, c3, text[c3] = P("}")) ELSE NoMatch

\* text.match(pattern): the leftmost match
RECURSIVE matchFrom(_, _, _)
matchFrom(text, nested, i) ==
  IF i > Len(text) THEN NoMatch
  ELSE LET m == IF nested THEN nestedPatternAt(text, i) ELSE flatPatternAt(text, i)
       IN IF m.found THEN m ELSE matchFrom(text, nested, i + 1)

\* the value parseWidgetFromText returns
WidgetData(widget, data) == [found |-> TRUE, widget |-> widget, data |-> data]
NoWidget == [found |-> FALSE, widget |-> "", data |-> JUndefined]

\* if (parsed.widget && parsed.data) return {...}; parsed is << >> when
\* JSON.parse threw, and reading a field of null throws as well
payloadOf(parsed) ==
  IF /\ parsed # << >>
     /\ truthy(getField(parsed[1], "widget"))
     /\ truthy(getField(parsed[1], "data"))
    THEN WidgetData(toString(getField(parsed[1], "widget")),
                    getField(parsed[1], "data"))
  ELSE NoWidget

\* JSON.parse(match[0]) of a match
parseMatch(text, m) ==
  IF m.found /\ m.whole THEN JSONparse(SubSeq(text, m.from, m.to)) ELSE << >>

\* the first payload found among the results of the extraction attempts
RECURSIVE firstFound(_)
firstFound(attempts) ==
  IF attempts = << >> THEN NoWidget
  ELSE IF Head(attempts).found THEN Head(attempts)
  ELSE firstFound(Tail(attempts))

\* parseWidgetFromText without its last attempt, the parse of the whole text
parseWidgetFromTextByPattern(text) ==
  IF text = << >> THEN NoWidget
  ELSE firstFound(<< payloadOf(parseMatch(text, matchFrom(text, FALSE, 1))),
                     payloadOf(parseMatch(text, matchFrom(text, TRUE, 1))) >>)

\* parseWidgetFromText(text): the flat pattern, the nested pattern, then the
\* whole text; JSON.parse skips the blanks text.trim() removes
parseWidgetFromText(text) ==
  IF text = << >> THEN NoWidget
  ELSE firstFound(<< payloadOf(parseMatch(text, matchFrom(text, FALSE, 1))),
                     payloadOf(parseMatch(text, matchFrom(text, TRUE, 1))),
                     payloadOf(JSONparse(text)) >>)

\* ------------------------------------------- texts given to the parser
\* JSON text of a value, as tokens; spaced puts a blank after ":" and ","
RECURSIVE tokensOf(_, _)
RECURSIVE memberTokens(_, _)
RECURSIVE elementTokens(_, _)
tokensOf(value, spaced) ==
  IF value.t = "string" THEN << S(value.s) >>
  ELSE IF value.t = "number" THEN << N(value.s) >>
  ELSE IF value.t = "object"
    THEN << P("{") >> \o memberTokens(value.m, spaced) \o << P("}") >>
  ELSE IF value.t = "array"
    THEN << P("[") >> \o elementTokens(value.m, spaced) \o << P("]") >>
  ELSE << W(value.s) >>

memberTokens(members, spaced) ==
  IF members = << >> THEN << >>
  ELSE << S(Head(members).key), P(":") >>
         \o (IF spaced THEN << Sp >> ELSE << >>)
         \o tokensOf(Head(members).val, spaced)
         \o (IF Len(members) > 1
               THEN << P(",") >> \o (IF spaced THEN << Sp >> ELSE << >>)
             ELSE << >>)
         \o memberTokens(Tail(members), spaced)

elementTokens(elements, spaced) ==
  IF elements = << >> THEN << >>
  ELSE tokensOf(Head(elements), spaced)
         \o (IF Len(elements) > 1
               THEN << P(",") >> \o (IF spaced THEN << Sp >> ELSE << >>)
             ELSE << >>)
         \o elementTokens(Tail(elements), spaced)

ContactData ==
  JObj(<< Member("name", JStr("Jane Doe")), Member("phone", JStr("555-1234")),
          Member("email", JStr("jane@x.com")) >>)

\* values of the widget field and of the data field; undefined is a missing
\* field
WidgetFields == {JUndefined, JStr("contact_card"), JStr("note"), JStr(""), JNum("7")}

DataFields ==
  { JUndefined, ContactData, JObj(<< >>),
    JObj(<< Member("text", JStr("use } to close")) >>),
    JObj(<< Member("name", JStr("Jane Doe")),
            Member("address", JObj(<< Member("city", JStr("Oslo")) >>)) >>),
    JObj(<< Member("address",
                   JObj(<< Member("geo", JObj(<< Member("lat", JNum("5")) >>)) >>)) >>),
    JObj(<< Member("home", JObj(<< Member("city", JStr("Oslo")) >>)),
            Member("work", JObj(<< Member("city", JStr("Rome")) >>)) >>),
    JStr("x"), JStr(""), JNum("5"), JNum("0"), JBool("true"), JBool("false"),
    JArr(<< >>), JArr(<< JNum("1") >>), JNull }

\* the object {"widget": w, "data": d}, a missing field left out
widgetObject(w, d) ==
  JObj((IF w = JUndefined THEN << >> ELSE << Member("widget", w) >>)
         \o (IF d = JUndefined THEN << >> ELSE << Member("data", d) >>))

\* prose before and after the object
Prefixes == { << >>, << W("Here is the card:"), Sp >> }
Suffixes == { << >>, << Sp >>, << Sp, W("Anything else?") >> }

\* texts without any object
PlainTexts == { << >>, << Sp >>, << W("hello there") >>, << N("42") >>, << W("null") >> }

\* a text, the object written in it (undefined when there is none) and
\* whether parseWidgetFromText has been called on it, with its result
ParseInput(text, object) ==
  [text |-> text, object |-> object, called |-> FALSE, result |-> NoWidget]

ParseInputs ==
  { ParseInput(pre \o tokensOf(widgetObject(w, d), spaced) \o post,
               widgetObject(w, d)) :
      pre \in Prefixes, post \in Suffixes, spaced \in BOOLEAN,
      w \in WidgetFields, d \in DataFields }
  \cup { ParseInput(text, JUndefined) : text \in PlainTexts }

\* parseWidgetFromText(text)
ParseCall ==
  /\ ~parse.called
  /\ parse' = [parse EXCEPT !.called = TRUE,
                            !.result = parseWidgetFromText(parse.text)]
  /\ UNCHANGED << panelVars, updates, route, browser, dom, view, obs, tool >>

ParseInit ==
  /\ PanelAtRest
  /\ updates = NoUpdates
  /\ route = RouteIdle(DefaultRouteEnv)
  /\ browser = NoBrowser
  /\ dom = NoDom
  /\ view = NoView
  /\ obs = NoObs
  /\ tool = NoTool
  /\ parse \in ParseInputs

ParseNext == ParseCall

ParseSpec == ParseInit /\ [][ParseNext]_vars

\* --------------------------------------------------------- WidgetRenderer
\* What a call of WidgetRenderer gives: the view it returns (the texts it
\* shows) or the TypeError it throws.
View(kind, label, name, title, phone, email, json) ==
  [threw |-> FALSE, kind |-> kind, label |-> label, name |-> name,
   title |-> title, phone |-> phone, email |-> email, json |-> json]

TypeError ==
  [threw |-> TRUE, kind |-> "TypeError", label |-> "", name |-> "",
   title |-> "", phone |-> "", email |-> "", json |-> << >>]

\* JSON.stringify(data, null, 2): undefined for undefined, which React shows
\* as nothing
stringify(data) == IF data.t = "undefined" THEN << >> ELSE tokensOf(data, TRUE)

\* String(data[key] || "")
fieldText(data, key) ==
  IF truthy(getField(data, key)) THEN toString(getField(data, key)) ELSE ""

\* ContactCardWidget({ data }): reading a property of null or undefined
\* throws
ContactCardWidget(data) ==
  IF data.t \in {"null", "undefined"} THEN TypeError
  ELSE View("contact_card", "", fieldText(data, "name"), fieldText(data, "title"),
            fieldText(data, "phone"), fieldText(data, "email"), << >>)

\* WidgetRenderer({ widget, data })
WidgetRenderer(widget, data) ==
  IF widget = "contact_card" THEN ContactCardWidget(data)
  ELSE View("default", widget, "", "", "", "", stringify(data))

\* values a field of data can have; undefined is a missing field
NameValues == {JUndefined, JStr("Jane Doe"), JStr(""), JNum("0"), JNull}
TitleValues == {JUndefined, JStr("CEO")}
PhoneValues == {JUndefined, JStr("555-1234"), JNum("5551234")}
EmailValues == {JUndefined, JStr("jane@x.com"), JObj(<< >>)}

\* the members of an object, missing fields left out
membersOf(pairs) ==
  SelectSeq(pairs, LAMBDA member : member.val.t # "undefined")

RenderData ==
  { JObj(membersOf(<< Member("name", n), Member("title", t),
                      Member("phone", ph), Member("email", e) >>)) :
      n \in NameValues, t \in TitleValues, ph \in PhoneValues, e \in EmailValues }
  \cup { JObj(<< Member("a", JNum("1")) >>), JStr("x"), JNum("5"), JBool("true"),
          JArr(<< >>), JNull, JUndefined }

RenderTypes == {"contact_card", "unknown_type", "note"}

RenderInputs ==
  { [widget |-> w, data |-> d, called |-> FALSE, result |-> "none"] :
      w \in RenderTypes, d \in RenderData }

\* React calls WidgetRenderer with the props of the element.
RenderCall ==
  /\ ~view.called
  /\ view' = [view EXCEPT !.called = TRUE,
                          !.result = WidgetRenderer(view.widget, view.data)]
  /\ UNCHANGED << panelVars, updates, route, browser, parse, dom, obs, tool >>

RenderInit ==
  /\ PanelAtRest
  /\ updates = NoUpdates
  /\ route = RouteIdle(DefaultRouteEnv)
  /\ browser = NoBrowser
  /\ parse = NoParse
  /\ dom = NoDom
  /\ view \in RenderInputs
  /\ obs = NoObs
  /\ tool = NoTool

RenderNext == RenderCall

RenderSpec == RenderInit /\ [][RenderNext]_vars

\* ------------------------------------------------------ widget text scanner
\* The DOM under the <openai-chatkit> element: dom.nodes[n] is node n, with
\* its kind, class attribute, parent (0 when it has none), children in
\* document order, text (of a text node) and, for a widget wrapper, the
\* payload of its data-widget-type and data-widget-data attributes.
\* by says who made the node: the vendor widget ("chatkit"), the scanner or
\* a rendered widget view ("react").
DomNode(kind, cls, parent, kids, text, payload, by) ==
  [kind |-> kind, cls |-> cls, parent |-> parent, kids |-> kids,
   text |-> text, payload |-> payload, by |-> by]

Element(cls, parent, kids, by) ==
  DomNode("element", cls, parent, kids, << >>, NoWidget, by)
TextNode(text, parent, by) == DomNode("text", "", parent, << >>, text, NoWidget, by)

CHATKIT_ELEMENT == 1
MESSAGE_CONTENT_CLASS == "chatkit-message-content"
WIDGET_CLASS == "chatkit-custom-widget my-4"

\* the class attributes that [class*="message"], [class*="Message"],
\* [class*="thread-item"] or [class*="ThreadItem"] selects
MessageClasses == {"message", MESSAGE_CONTENT_CLASS}

\* the walk of an observer callback: the added node, the message elements
\* still to walk (the first one being walked) and the walker's currentNode
NoScan == [active |-> FALSE, added |-> 0, msgEls |-> << >>, cur |-> 0]

\* node.parentElement chain up to the <openai-chatkit> element
RECURSIVE attached(_, _)
attached(d, n) ==
  IF n = CHATKIT_ELEMENT THEN TRUE
  ELSE IF n = 0 THEN FALSE
  ELSE attached(d, d.nodes[n].parent)

\* the descendants of n in document order
RECURSIVE descendants(_, _)
RECURSIVE descendantsOfAll(_, _)
descendants(d, n) == descendantsOfAll(d, d.nodes[n].kids)

descendantsOfAll(d, ns) ==
  IF ns = << >> THEN << >>
  ELSE << Head(ns) >> \o descendants(d, Head(ns)) \o descendantsOfAll(d, Tail(ns))

\* concatenation of the texts of the text nodes of ns
RECURSIVE textOfAll(_, _)
textOfAll(d, ns) ==
  IF ns = << >> THEN << >>
  ELSE d.nodes[Head(ns)].text \o textOfAll(d, Tail(ns))

\* node.textContent
textContentOf(d, n) ==
  IF d.nodes[n].kind = "text" THEN d.nodes[n].text
  ELSE textOfAll(d, descendants(d, n))

\* element.querySelectorAll('[class*="message"], ...')
messageElementsOf(d, n) ==
  SelectSeq(descendants(d, n),
            LAMBDA k : d.nodes[k].kind = "element" /\ d.nodes[k].cls \in MessageClasses)

\* element.querySelector(".chatkit-custom-widget") finds a descendant
hasWidgetDescendant(d, n) ==
  \E i \in 1..Len(descendants(d, n)) :
    d.nodes[descendants(d, n)[i]].cls = WIDGET_CLASS

\* node.nextSibling, 0 for null
nextSibling(d, n) ==
  LET p == d.nodes[n].parent
  IN IF p = 0 THEN 0
     ELSE LET kids == d.nodes[p].kids
              i == CHOOSE i \in 1..Len(kids) : kids[i] = n
          IN IF i < Len(kids) THEN kids[i + 1] ELSE 0

\* TreeWalker.nextNode() from currentNode cur under root, 0 for null: the
\* first child, else the next sibling of the nearest ancestor that has one;
\* a node taken out of the document has neither parent nor sibling
RECURSIVE followingNode(_, _, _)
followingNode(d, root, t) ==
  IF t = 0 \/ t = root THEN 0
  ELSE IF nextSibling(d, t) # 0 THEN nextSibling(d, t)
  ELSE followingNode(d, root, d.nodes[t].parent)

nextNode(d, root, cur) ==
  IF d.nodes[cur].kids # << >> THEN Head(d.nodes[cur].kids)
  ELSE followingNode(d, root, cur)

\* the nearest ancestor-or-self element of class chatkit-message-content
RECURSIVE contentAncestor(_, _)
contentAncestor(d, e) ==
  IF e = 0 THEN 0
  ELSE IF d.nodes[e].cls = MESSAGE_CONTENT_CLASS THEN e
  ELSE contentAncestor(d, d.nodes[e].parent)

\* the wrapper appended to e without e.innerHTML = ""
replaceContentAppending(d, e, widgetData) ==
  LET c == Len(d.nodes) + 1
  IN [d EXCEPT
        !.nodes = Append([@ EXCEPT ![e].kids = Append(@, c)],
                         DomNode("element", WIDGET_CLASS, e, << >>, << >>,
                                 widgetData, "scanner")),
        !.processed = @ \cup {c, e},
        !.roots = @ \cup {c},
        !.queue = IF attached(d, e) THEN Append(@, c) ELSE @]

\* e.innerHTML = ""; e.appendChild(widgetContainer); both are marked
\* processed, a root is created on the wrapper, and the observer is told of
\* the insertion when e is in the document
replaceContent(d, e, widgetData) ==
  LET c == Len(d.nodes) + 1
      removed == {d.nodes[e].kids[i] : i \in 1..Len(d.nodes[e].kids)}
      cleared == [n \in 1..Len(d.nodes) |->
                    IF n = e THEN [d.nodes[n] EXCEPT !.kids = << c >>]
                    ELSE IF n \in removed THEN [d.nodes[n] EXCEPT !.parent = 0]
                    ELSE d.nodes[n]]
  IN [d EXCEPT
        !.nodes = Append(cleared,
                         DomNode("element", WIDGET_CLASS, e, << >>, << >>,
                                 widgetData, "scanner")),
        !.processed = @ \cup {c, e},
        !.roots = @ \cup {c},
        !.queue = IF attached(d, e) THEN Append(@, c) ELSE @]

\* textContent.trim().match(/^[\s\n]*\{/)
startsWithBrace(text) == tokAt(text, skipWS(text, 1)) = P("{")

\* parseWidgetFromText(node.textContent), the text being computed once
widgetDataOf(d, n) ==
  [text \in {textContentOf(d, n)} |-> parseWidgetFromText(text)][textContentOf(d, n)]

\* the text branch replacing whatever the parse of the text gave
replaceIfWidgetUnparsed(d, n, widgetData) ==
  IF d.nodes[n].kind = "text"
    THEN IF contentAncestor(d, d.nodes[n].parent) # 0
           THEN replaceContent(d, d.nodes[n].parent, widgetData)
         ELSE d
  ELSE IF hasWidgetDescendant(d, n) THEN d
  ELSE IF widgetData.found /\ startsWithBrace(textContentOf(d, n))
    THEN replaceContent(d, n, widgetData)
  ELSE d

\* The two branches of processMessageContent for a node not yet processed,
\* widgetData being the payload parsed from its text: a text node under a
\* chatkit-message-content element has its parent's content replaced, an
\* element without widget whose text starts with "{" has its own.
replaceIfWidget(d, n, widgetData) ==
  IF d.nodes[n].kind = "text"
    THEN IF widgetData.found /\ contentAncestor(d, d.nodes[n].parent) # 0
           THEN replaceContent(d, d.nodes[n].parent, widgetData)
         ELSE d
  ELSE IF hasWidgetDescendant(d, n) THEN d
  ELSE IF widgetData.found /\ startsWithBrace(textContentOf(d, n))
    THEN replaceContent(d, n, widgetData)
  ELSE d

\* processMessageContent(node)
processMessageContent(d, n) ==
  IF n \in d.processed THEN d ELSE replaceIfWidget(d, n, widgetDataOf(d, n))

\* processMessageContent(n) gets as far as its call of parseWidgetFromText
reachesParse(d, n) ==
  /\ n \notin d.processed
  /\ d.nodes[n].kind = "element" => ~hasWidgetDescendant(d, n)

\* the node the walk gives to processMessageContent next (0 when every
\* message element has been walked), and the walk after that
RECURSIVE nextTarget(_, _, _)
nextTarget(d, msgEls, cur) ==
  IF msgEls = << >> THEN [node |-> 0, msgEls |-> << >>, cur |-> 0]
  ELSE LET n == nextNode(d, Head(msgEls), cur)
       IN IF n # 0 THEN [node |-> n, msgEls |-> msgEls, cur |-> n]
          ELSE IF Tail(msgEls) = << >> THEN [node |-> 0, msgEls |-> << >>, cur |-> 0]
          ELSE nextTarget(d, Tail(msgEls), Head(Tail(msgEls)))

\* texts of a message
HelloText == << W("hello there") >>
CardText == tokensOf(widgetObject(JStr("contact_card"), ContactData), FALSE)
ProseCardText == << W("Here is the card:"), Sp >> \o CardText
\* the beginning of a payload, as a streamed text shows it before its end
PartialCardText == SubSeq(CardText, 1, 4)
\* a payload of a widget type the registry does not know
NoteText == tokensOf(widgetObject(JStr("note"), ContactData), FALSE)

\* A message as the vendor widget renders it: an element of class "message"
\* holding a content element (of class chatkit-message-content or of
\* another class) holding one paragraph per text.
MessageShape(content, paras) == [content |-> content, paras |-> paras]

MessageShapes ==
  { MessageShape(TRUE, << HelloText >>),
    MessageShape(TRUE, << CardText >>),
    MessageShape(TRUE, << ProseCardText >>),
    MessageShape(TRUE, << CardText, HelloText >>),
    MessageShape(TRUE, << HelloText, CardText >>),
    MessageShape(FALSE, << ProseCardText >>),
    MessageShape(FALSE, << CardText >>),
    MessageShape(TRUE, << NoteText >>) }

\* the nodes of a message whose first node gets number m
messageNodes(shape, m) ==
  LET k == Len(shape.paras)
  IN << Element("message", CHATKIT_ELEMENT, << m + 1 >>, "chatkit"),
        Element(IF shape.content THEN MESSAGE_CONTENT_CLASS ELSE "bubble", m,
                [i \in 1..k |-> m + 2 * i], "chatkit") >>
       \o [j \in 1..(2 * k) |->
             IF j % 2 = 1 THEN Element("", m + 1, << m + 2 + j >>, "chatkit")
             ELSE TextNode(shape.paras[j \div 2], m + j, "chatkit")]

\* the text a mounted widget view shows
viewText(payload) ==
  IF payload.widget = "contact_card"
    THEN << W(fieldText(payload.data, "name")), W(fieldText(payload.data, "phone")),
            W(fieldText(payload.data, "email")) >>
  ELSE << W("Widget: "), W(payload.widget) >> \o tokensOf(payload.data, TRUE)

\* The vendor widget renders a message under the <openai-chatkit> element.
RenderMessage ==
  /\ ~dom.scan.active
  /\ dom.rendered < MaxMessages
  /\ \E shape \in MessageShapes :
       LET m == Len(dom.nodes) + 1
       IN dom' = [dom EXCEPT
                    !.nodes = [@ EXCEPT ![CHATKIT_ELEMENT].kids = Append(@, m)]
                                \o messageNodes(shape, m),
                    !.queue = Append(@, m),
                    !.rendered = @ + 1]
  /\ UNCHANGED << panelVars, updates, route, browser, parse, view, obs, tool >>

\* The vendor widget appends a text node to a message content element.
AppendText ==
  /\ ~dom.scan.active
  /\ dom.rendered < MaxMessages
  /\ \E e \in 1..Len(dom.nodes), text \in {HelloText, CardText, PartialCardText} :
       /\ dom.nodes[e].cls = MESSAGE_CONTENT_CLASS
       /\ attached(dom, e)
       /\ LET t == Len(dom.nodes) + 1
          IN dom' = [dom EXCEPT
                       !.nodes = Append([@ EXCEPT ![e].kids = Append(@, t)],
                                        TextNode(text, e, "chatkit")),
                       !.queue = Append(@, t),
                       !.rendered = @ + 1]
  /\ UNCHANGED << panelVars, updates, route, browser, parse, view, obs, tool >>

\* The vendor widget sets the data of a text node it streams: the text
\* becomes the whole payload. The observer's record of it is of type
\* characterData and has no addedNodes: the callback's loops over
\* mutation.addedNodes do nothing with it.
GrowText ==
  /\ ~dom.scan.active
  /\ \E t \in 1..Len(dom.nodes) :
       /\ dom.nodes[t].kind = "text" /\ dom.nodes[t].by = "chatkit"
       /\ dom.nodes[t].text = PartialCardText
       /\ attached(dom, t)
       /\ dom' = [dom EXCEPT !.nodes[t].text = CardText]
  /\ UNCHANGED << panelVars, updates, route, browser, parse, view, obs, tool >>

\* The observer's callback takes the next added node: for an element it
\* collects the message elements under it, to walk each of them.
ObserverTakes ==
  /\ ~dom.scan.active
  /\ dom.queue # << >>
  /\ LET n == Head(dom.queue)
         msgEls == IF dom.nodes[n].kind = "element"
                     THEN messageElementsOf(dom, n) ELSE << >>
     IN dom' = [dom EXCEPT
                  !.queue = Tail(@),
                  !.scan = [active |-> TRUE, added |-> n, msgEls |-> msgEls,
                            cur |-> IF msgEls = << >> THEN 0 ELSE Head(msgEls)]]
  /\ UNCHANGED << panelVars, updates, route, browser, parse, view, obs, tool >>

\* The callback's next call of processMessageContent: on the walker's next
\* node or, after the walks, on the added node itself.
ProcessNext ==
  /\ dom.scan.active
  /\ \E t \in {nextTarget(dom, dom.scan.msgEls, dom.scan.cur)} :
       \E n \in {IF t.node # 0 THEN t.node ELSE dom.scan.added} :
         dom' = [processMessageContent(dom, n) EXCEPT
                   !.scan = IF t.node # 0
                              THEN [dom.scan EXCEPT !.msgEls = t.msgEls,
                                                    !.cur = t.cur]
                            ELSE NoScan,
                   !.last = n,
                   !.submitted = IF reachesParse(dom, n)
                                   THEN @ \cup {<< n, textContentOf(dom, n) >>}
                                 ELSE @]
  /\ UNCHANGED << panelVars, updates, route, browser, parse, view, obs, tool >>

\* A commit that reports a widget type outside the registry as an
\* integration error instead of showing the default view
MountWidgetReportingUnknown ==
  /\ ~dom.scan.active
  /\ dom.queue = << >>
  /\ \E c \in dom.roots :
       LET v == Len(dom.nodes) + 1
           known == dom.nodes[c].payload.widget = "contact_card"
       IN /\ dom' = [dom EXCEPT
                       !.nodes = [@ EXCEPT ![c].kids = << v >>]
                                   \o << Element("widget-view", c, << v + 1 >>, "react"),
                                         TextNode(viewText(dom.nodes[c].payload),
                                                  v, "react") >>,
                       !.roots = @ \ {c},
                       !.queue = IF attached(dom, c) THEN Append(@, v) ELSE @]
          /\ errors' = IF known THEN errors
                       ELSE [errors EXCEPT !.integration = "Unknown widget"]
  /\ UNCHANGED << isInitializingSession, isMounted, scriptStatus, widgetInstanceKey,
                  workflowId, isSettingsOpen, tempWorkflowId, processedFacts,
                  registered, timerArmed, pendingEffects, inFlight, lastCall,
                  updates, route, browser, parse, view, obs, tool >>

\* root.render(<WidgetRenderer .../>) commits: the view is inserted in its
\* wrapper, which the observer sees when the wrapper is in the document.
MountWidget ==
  /\ ~dom.scan.active
  /\ dom.queue = << >>
  /\ \E c \in dom.roots :
       LET v == Len(dom.nodes) + 1
       IN dom' = [dom EXCEPT
                    !.nodes = [@ EXCEPT ![c].kids = << v >>]
                                \o << Element("widget-view", c, << v + 1 >>, "react"),
                                      TextNode(viewText(dom.nodes[c].payload),
                                               v, "react") >>,
                    !.roots = @ \ {c},
                    !.queue = IF attached(dom, c) THEN Append(@, v) ELSE @]
  /\ UNCHANGED << panelVars, updates, route, browser, parse, view, obs, tool >>

ScanInit ==
  /\ PanelAtRest
  /\ updates = NoUpdates
  /\ route = RouteIdle(DefaultRouteEnv)
  /\ browser = NoBrowser
  /\ parse = NoParse
  /\ dom = NoDom
  /\ view = NoView
  /\ obs = NoObs
  /\ tool = NoTool

ScanNext ==
  \/ RenderMessage
  \/ AppendText
  \/ GrowText
  \/ ObserverTakes
  \/ ProcessNext
  \/ MountWidget

ScanSpec == ScanInit /\ [][ScanNext]_vars

\* a step of a running callback: the walk moves on or the callback returns
WalkMoves == dom.scan.active /\ dom'.scan # dom.scan

\* The observer's callback is delivered once a mutation is queued, a
\* scheduled render of a root is committed, and a running callback goes on to
\* its end: weak fairness of ProcessNext, which is enabled exactly while a
\* callback runs and whose steps are the steps that move the walk.
ScanFairSpec ==
  /\ ScanSpec
  /\ WF_vars(ObserverTakes)
  /\ WF_vars(MountWidget)
  /\ ([]<>(~dom.scan.active) \/ []<><<WalkMoves>>_vars)

\* ------------------------------------------------- scanner effect lifecycle
\* obs.element: document.querySelector("openai-chatkit") finds an element;
\* obs.current: the latest run of the effect (0 before the first);
\* obs.run[r]: run r of the effect, with its own observer and its own polls.

\* startObserving that schedules the next poll also when it finds the root
startObservingStillPolling(o, r) ==
  IF o.element
    THEN [o EXCEPT !.run[r].observing = TRUE, !.run[r].target = o.gen,
                   !.run[r].poll = TRUE]
    ELSE [o EXCEPT !.run[r].poll = TRUE]

\* startObserving of run r: observe the element, or poll again in 500 ms
startObserving(o, r) ==
  IF o.element THEN [o EXCEPT !.run[r].observing = TRUE, !.run[r].target = o.gen]
               ELSE [o EXCEPT !.run[r].poll = TRUE]

\* The cleanup the latest run returned, if it returned one:
\* observer.disconnect()
scannerCleanup(o) ==
  IF o.current # 0 /\ o.run[o.current].started
    THEN [o EXCEPT !.run[o.current].observing = FALSE,
                   !.run[o.current].torn = TRUE]
    ELSE o

\* The effect runs (at mount, and again whenever chatkit changes): React
\* runs the previous cleanup first; without chatkit.control the run returns
\* at its guard.
RunScannerEffect ==
  /\ obs.mounted /\ obs.current < MaxRuns
  /\ \E control \in BOOLEAN :
       LET r == obs.current + 1
           o == [scannerCleanup(obs) EXCEPT !.current = r]
       IN obs' = IF control
                   THEN startObserving([o EXCEPT !.run[r].started = TRUE], r)
                   ELSE o
  /\ UNCHANGED << panelVars, updates, route, browser, parse, dom, view, tool >>

\* a pending setTimeout(startObserving, 500) of run r fires
PollFires ==
  /\ \E r \in 1..MaxRuns :
       /\ obs.run[r].poll
       /\ obs' = startObserving([obs EXCEPT !.run[r].poll = FALSE], r)
  /\ UNCHANGED << panelVars, updates, route, browser, parse, dom, view, tool >>

\* the vendor component puts its <openai-chatkit> element in the document
AttachElement ==
  /\ obs.mounted /\ ~obs.element
  /\ obs' = [obs EXCEPT !.element = TRUE]
  /\ UNCHANGED << panelVars, updates, route, browser, parse, dom, view, tool >>

\* the panel unmounts: the cleanup runs and the panel's subtree, the vendor
\* element in it, leaves the document
Teardown ==
  /\ obs.mounted
  /\ obs' = [scannerCleanup(obs) EXCEPT !.mounted = FALSE, !.element = FALSE]
  /\ UNCHANGED << panelVars, updates, route, browser, parse, dom, view, tool >>

\* handleResetChat advances widgetInstanceKey, the key of <ChatKit>: React
\* unmounts the vendor element of the old mount generation and mounts a new
\* one. handleResetChat itself does nothing to the observer.
RemountChatKit ==
  /\ obs.mounted /\ obs.gen < MaxResets
  /\ obs' = [obs EXCEPT !.gen = @ + 1, !.element = FALSE]
  /\ UNCHANGED << panelVars, updates, route, browser, parse, dom, view, tool >>

\* The callback of run r's observer is delivered for a mutation under the
\* element it observes (a message rendered by the vendor widget, or the
\* commit of a root.render the scanner scheduled); an element that has left
\* the document is still observed until disconnect().
ScanCallback ==
  /\ \E r \in 1..MaxRuns :
       /\ obs.run[r].observing
       /\ obs' = [obs EXCEPT !.run[r].ran = TRUE,
                             !.run[r].late = @ \/ obs.run[r].target < obs.gen]
  /\ UNCHANGED << panelVars, updates, route, browser, parse, dom, view, tool >>

ObserveInit ==
  /\ PanelAtRest
  /\ updates = NoUpdates
  /\ route = RouteIdle(DefaultRouteEnv)
  /\ browser = NoBrowser
  /\ parse = NoParse
  /\ dom = NoDom
  /\ view = NoView
  /\ obs \in {[NoObs EXCEPT !.element = e] : e \in BOOLEAN}
  /\ tool = NoTool

ObserveNext ==
  \/ RunScannerEffect
  \/ PollFires
  \/ AttachElement
  \/ RemountChatKit
  \/ ScanCallback
  \/ Teardown

ObserveSpec == ObserveInit /\ [][ObserveNext]_vars

\* a timer that is pending fires
ObserveFairSpec == ObserveSpec /\ WF_vars(PollFires)

\* ------------------------------------------------------ record_fact tool
\* onClientTool for record_fact, with what it did
RecordFactCall ==
  /\ tool.total < MaxToolCalls
  /\ \E param \in FactParams :
       LET id == factIdOf(param)
           r == recordFact(processedFacts, id)
       IN /\ processedFacts' = r.processed
          /\ tool' = [tool EXCEPT
                        !.total = @ + 1,
                        !.asked[id] = @ + 1,
                        !.saved[id] = IF r.invoked THEN @ + 1 ELSE @,
                        !.last = [called |-> TRUE, param |-> param,
                                  invoked |-> r.invoked, success |-> r.success]]
  /\ UNCHANGED << errors, isInitializingSession, isMounted, scriptStatus,
                  widgetInstanceKey, workflowId, isSettingsOpen, tempWorkflowId,
                  registered, timerArmed, pendingEffects, inFlight, lastCall,
                  updates, route, browser, parse, dom, view, obs >>

\* onThreadChange: processedFacts.current.clear()
FactThreadChange ==
  /\ processedFacts' = {}
  /\ tool' = [tool EXCEPT !.asked = NoTool.asked, !.saved = NoTool.saved]
  /\ UNCHANGED << errors, isInitializingSession, isMounted, scriptStatus,
                  widgetInstanceKey, workflowId, isSettingsOpen, tempWorkflowId,
                  registered, timerArmed, pendingEffects, inFlight, lastCall,
                  updates, route, browser, parse, dom, view, obs >>

\* handleResetChat, which clears processedFacts first
FactReset ==
  /\ widgetInstanceKey < MaxResets
  /\ LET s == handleResetChat(panel)
     IN commit(s) /\ pendingEffects' = effectsAfter(s.scriptStatus, workflowId)
  /\ tool' = [tool EXCEPT !.asked = NoTool.asked, !.saved = NoTool.saved]
  /\ UNCHANGED << isMounted, workflowId, isSettingsOpen, tempWorkflowId,
                  registered, timerArmed, inFlight, lastCall,
                  updates, route, browser, parse, dom, view, obs >>

FactInit ==
  /\ PanelAtRest
  /\ updates = NoUpdates
  /\ route = RouteIdle(DefaultRouteEnv)
  /\ browser = NoBrowser
  /\ parse = NoParse
  /\ dom = NoDom
  /\ view = NoView
  /\ obs = NoObs
  /\ tool = NoTool

FactNext ==
  \/ RecordFactCall
  \/ FactThreadChange
  \/ FactReset

FactSpec == FactInit /\ [][FactNext]_vars

\* ================================================================== claims

\* The error message chosen by the precedence script > session > integration.
precedencePick ==
  IF errors.script # null THEN errors.script
  ELSE IF errors.session # null THEN errors.session
  ELSE errors.integration

anyErrorSet ==
  errors.script # null \/ errors.session # null \/ errors.integration # null

\* C1: the error handed to the overlay is script when script is set, otherwise
\* session when session is set, otherwise integration; an overlay that shows
\* an error shows that one, and a script error is always the one on display,
\* whatever session and integration hold.
C1_BlockingPrecedence ==
  /\ blockingError = precedencePick
  /\ (overlay.shown /\ anyErrorSet) => overlay.content = precedencePick
  /\ errors.script # null => (overlay.shown /\ overlay.content = errors.script)

C1_Witness ==
  /\ errors.script # null /\ errors.session # null /\ errors.integration # null
  /\ overlay.shown /\ overlay.content = errors.script

\* C3 (as claimed): with any error field set or initialization in progress
\* the widget is suppressed and the overlay shown; with no error field set and
\* initialization over the widget is visible and there is no overlay.
C3_WidgetSuppressed ==
  /\ (anyErrorSet \/ isInitializingSession) => (~widgetVisible /\ overlay.shown)
  /\ (~anyErrorSet /\ ~isInitializingSession) => (widgetVisible /\ ~overlay.shown)

\* C4 (as claimed): the retry button is never offered while the error on
\* display is a script-load error or the missing-workflow error.
C4_RetryOnlyWhenRetryable ==
  (overlay.shown /\ overlay.button) =>
     ~(errors.script # null \/ blockingError = MissingWorkflowMsg)

resetPostcondition(before, after) ==
  /\ after.errors = createInitialErrors
  /\ after.isInitializingSession = TRUE
  /\ after.processedFacts = {}
  /\ after.widgetInstanceKey = before.widgetInstanceKey + 1

\* C5: every step that performs the full reset (retry click or settings
\* save) ends with all error fields cleared, initializing true, the processed
\* tracking empty, script status ready or pending according to the current
\* registration of the vendor element, and the mount generation one greater.
C5_ResetPostcondition ==
  [][(RetryClick \/ SaveSettings) =>
       /\ resetPostcondition(panel, panel')
       /\ scriptStatus' = IF registered THEN "ready" ELSE "pending"]_vars

C5_Witness ==
  /\ widgetInstanceKey >= 1
  /\ errors = createInitialErrors /\ isInitializingSession
  /\ processedFacts = {} /\ scriptStatus = "pending"

\* the fields the reset is claimed to be idempotent on
resetView(s) ==
  [errors |-> s.errors, isInitializingSession |-> s.isInitializingSession,
   processedFacts |-> s.processedFacts, scriptStatus |-> s.scriptStatus]

\* C6: from every reachable state, the full reset applied twice in a row
\* gives the same errors, initializing flag, processed tracking and script
\* status as the full reset applied once.
C6_ResetIdempotent ==
  resetView(handleResetChat(handleResetChat(panel))) =
    resetView(handleResetChat(panel))

\* a state reached through a reset and dirtied again, from which one reset
\* and two resets both change every field of the view
C6_Witness ==
  /\ widgetInstanceKey >= 1
  /\ anyErrorSet /\ ~isInitializingSession /\ processedFacts # {}
  /\ resetView(handleResetChat(panel)).errors # errors

\* the workflow identifier is empty or carries the placeholder prefix
workflowUnsetOrPlaceholder ==
  workflowId = << >> \/ Head(workflowId) = PLACEHOLDER_PREFIX

\* C7: a getClientSecret call made while the workflow identifier is empty or
\* carries the placeholder prefix issues no request, rejects with the
\* missing-workflow message and, while mounted, sets session to that message,
\* retryable to false and initializing to false.
C7_MissingWorkflowFailsFast ==
  [][(GetClientSecret /\ workflowUnsetOrPlaceholder) =>
       /\ inFlight' = inFlight
       /\ lastCall'.outcome = "rejected"
       /\ lastCall'.value = MissingWorkflowMsg
       /\ isMounted =>
            /\ errors'.session = MissingWorkflowMsg
            /\ errors'.retryable = FALSE
            /\ isInitializingSession' = FALSE]_vars

C7_Witness ==
  /\ workflowId = << >>
  /\ widgetInstanceKey >= 1
  /\ lastCall.outcome = "rejected" /\ lastCall.resp = NoResponse
  /\ inFlightCount = 0
  /\ isMounted /\ errors.session = MissingWorkflowMsg

\* C8 (as claimed): when a request fails while the panel is mounted the call
\* rejects, no further request is issued, and session holds a non-empty
\* message, which the overlay displays unless a script error is set.
C8_FailureSurfaced ==
  [][(FetchSettles /\ isMounted /\ lastCall'.outcome = "rejected") =>
       /\ inFlightCount' = inFlightCount - 1
       /\ errors'.session # null /\ errors'.session # ""
       /\ errors'.script = null =>
            (overlay'.shown /\ overlay'.content = errors'.session)]_vars

\* the response fetch settled with carries a non-empty client_secret under a
\* 2xx status
answeredWithSecret(resp) ==
  /\ resp.kind = "http" /\ resp.ok /\ resp.raw = "object"
  /\ resp.payload.client_secret.t = "string"
  /\ resp.payload.client_secret.s # ""

\* C9: a settled getClientSecret call is resolved exactly when the endpoint
\* answered 2xx with a non-empty client_secret, its value is then that
\* client_secret and, while mounted, session and integration are null; in
\* every other case the call is rejected.
C9_ResolvesOnlyWithSecret ==
  lastCall # NoCall =>
    /\ (lastCall.outcome = "resolved") <=> answeredWithSecret(lastCall.resp)
    /\ lastCall.outcome = "resolved" =>
         /\ lastCall.value = lastCall.resp.payload.client_secret.s
         /\ isMounted => (errors.session = null /\ errors.integration = null)
    /\ lastCall.outcome # "resolved" => lastCall.outcome = "rejected"

C9_Witness ==
  /\ lastCall.outcome = "resolved" /\ lastCall.value = "cs_live_1"
  /\ isMounted /\ errors.session = null /\ ~isInitializingSession

\* C2: every setErrorState(partial) call leaves each field that partial does
\* not name at its previous value and sets each field it names to the given
\* value.
C2_ShallowMerge ==
  [][\A f \in ErrorFields :
       errors'[f] = IF f \in DOMAIN updates' THEN updates'[f] ELSE errors[f]]_vars

\* a call naming session alone has acted: the other three fields keep their
\* non-initial values
C2_Witness ==
  /\ DOMAIN updates = {"session"}
  /\ errors.session = updates.session /\ errors.session = "Widget crashed"
  /\ errors.script = "" /\ errors.integration = "Widget crashed"
  /\ errors.retryable

\* an upstream secret is configured under one of the two names
keyConfigured ==
  \/ route.env.LOCAL_OPENAI_API_KEY \notin {null, ""}
  \/ route.env.OPENAI_API_KEY \notin {null, ""}

\* the request body names no workflow id, under either key
bodyWithoutWorkflowId ==
  LET b == route.req.body
  IN \/ b.raw # "object"
     \/ /\ ~(b.workflow.t = "object" /\ b.workflow.id.t = "string")
        /\ b.workflowId.t # "string"

carriesIdentity(header) ==
  \E i \in 1..Len(header) :
    header[i].hasEq /\ join(trim(header[i].rawName)) = SESSION_COOKIE_NAME

\* C11: with an upstream secret configured, a caller's first request, sent
\* without identity cookie, is answered with a Set-Cookie header carrying the
\* generated identifier; its second request, presenting that cookie, is
\* answered without Set-Cookie header, the endpoint resolves the cookie's
\* value as its identifier, and forwards it when the body names no user.
C11_CookieSetOnce ==
  (keyConfigured /\ Len(browser.log) >= 1
     /\ ~carriesIdentity(browser.log[1].cookie)) =>
    /\ browser.log[1].setCookie # null
    /\ browser.log[1].setCookie =
         serializeSessionCookie(<< "uuid-new" >>, route.env.production)
    /\ Len(browser.log) >= 2 =>
         /\ carriesIdentity(browser.log[2].cookie)
         /\ browser.log[2].setCookie = null
         /\ resolveUserId(browser.log[2].cookie, route.env.production).userId
              = << "uuid-new" >>
         /\ (~browser.log[2].panel /\ browser.log[2].forwarded # << >>) =>
              browser.log[2].forwarded = << "uuid-new" >>

C11_Witness ==
  /\ keyConfigured /\ Len(browser.log) = 2
  /\ ~carriesIdentity(browser.log[1].cookie)
  /\ browser.log[1].setCookie # null
  /\ carriesIdentity(browser.log[2].cookie)
  /\ browser.log[2].setCookie = null
  /\ browser.log[2].forwarded = << "uuid-new" >>

\* the Set-Cookie header of the identity cookie, as the spec writes it
identitySetCookie ==
  "chatkit_session_id=uuid-new; Path=/; Max-Age=2592000; HttpOnly; SameSite=Lax"
    \o (IF route.env.production THEN "; Secure" ELSE "")

\* C12: every response to a POST request that carries no identity cookie,
\* whatever its status, carries the Set-Cookie header of the identity cookie
\* with Path=/, Max-Age=2592000, HttpOnly, SameSite=Lax and, in production,
\* Secure.
C12_SetCookieOnEveryResponse ==
  (route.phase = "done" /\ ~carriesIdentity(route.req.cookie)) =>
    route.resp.setCookie = identitySetCookie

\* C13: the caller identity persists: for any two session creations the panel
\* makes from one browser, the second presenting the identity cookie the
\* first one set, the user identifier forwarded upstream is the same.
C13_IdentityPersists ==
  \A i, j \in 1..Len(browser.log) :
    (/\ i < j
     /\ browser.log[i].panel /\ browser.log[j].panel
     /\ browser.log[i].created /\ browser.log[j].created
     /\ browser.log[i].setCookie # null
     /\ carriesIdentity(browser.log[j].cookie)
     /\ browser.log[i].forwarded # << >> /\ browser.log[j].forwarded # << >>) =>
      browser.log[i].forwarded = browser.log[j].forwarded

\* client_secret and expires_after of the upstream response body, null when
\* the body has none
upstreamField(f) ==
  IF route.upstream.parses /\ route.upstream.json # << >>
    THEN route.upstream.json[1][f] ELSE null

\* C14: every 200 response of the endpoint carries a string client_secret,
\* never null or missing, equal to the upstream response's client_secret, and
\* an expires_after equal to the upstream value or null.
C14_SuccessCarriesSecret ==
  (route.phase = "done" /\ route.resp.status = 200) =>
    /\ route.resp.client_secret # null
    /\ route.resp.client_secret = upstreamField("client_secret")
    /\ route.resp.expires_after = upstreamField("expires_after")

\* the error text of the upstream response, or the status-text fallback when
\* none can be extracted
upstreamErrorText ==
  LET body == IF route.upstream.parses THEN route.upstream.json
              ELSE << EmptyJson >>
      extracted == extractUpstreamError(body)
  IN IF extracted # << >> THEN extracted[1]
     ELSE << "Failed to create session: ", route.upstream.statusText >>

\* C15: when upstream answers with a non-2xx status the endpoint answers with
\* exactly that status, and its error is the workflow-not-found message when
\* the upstream error text contains "not found", else the authentication
\* message when the status is 401 or 403, else the upstream error text (the
\* status-text fallback when none can be extracted).
C15_UpstreamErrorPassthrough ==
  (route.phase = "done" /\ route.upstream.kind = "http"
     /\ (route.upstream.status < 200 \/ route.upstream.status > 299)) =>
    /\ route.resp.status = route.upstream.status
    /\ route.resp.error =
         IF \E i \in 1..Len(upstreamErrorText) : upstreamErrorText[i] = "not found"
           THEN WorkflowNotFoundMsg(route.sent.workflow)
         ELSE IF route.upstream.status \in {401, 403}
           THEN AuthFailedMsg(route.upstream.status)
         ELSE join(upstreamErrorText)

C15_Witness ==
  /\ route.phase = "done" /\ route.upstream.kind = "http"
  /\ route.upstream.status = 401 /\ route.resp.status = 401
  /\ upstreamErrorText = << "Key ", "not found" >>
  /\ route.resp.error = WorkflowNotFoundMsg("wf_alt")

\* the value is an object whose members are strings, numbers, booleans or null
flatObject(value) ==
  /\ value.t = "object"
  /\ \A i \in 1..Len(value.m) : value.m[i].val.t \notin {"object", "array"}

C17_RequiresWidgetAndDataObject ==
  LET t == getField(parse.object, "widget")
      d == getField(parse.object, "data")
  IN (parse.called /\ parse.object.t = "object"
        /\ (t.t = "undefined" \/ t = JStr("") \/ d.t # "object")) =>
       ~parse.result.found

\* C18: a call of processMessageContent on a node whose text yields no widget
\* payload (such as "hello there") changes no node of the DOM, marks nothing
\* as processed, creates no root and inserts nothing the observer would see.
C18_NoPayloadNoMutation ==
  [][(dom.scan.active
        /\ ~parseWidgetFromText(textContentOf(dom, dom'.last)).found) =>
       /\ dom'.nodes = dom.nodes
       /\ dom'.processed = dom.processed
       /\ dom'.roots = dom.roots
       /\ dom'.queue = dom.queue]_vars

\* "hello there" was the last text processed, and nothing is marked
C18_Witness ==
  /\ dom.last # 0
  /\ dom.nodes[dom.last].kind = "text"
  /\ dom.nodes[dom.last].text = HelloText
  /\ attached(dom, dom.last)
  /\ dom.processed = {}

\* the words of a text that are no part of a JSON object
ProsePieces == {W("hello there"), W("Here is the card:")}

\* how many times piece p occurs in text
occurrences(text, p) == Cardinality({i \in 1..Len(text) : text[i] = p})

\* the texts of the text nodes the vendor widget has rendered, in one text
renderedText ==
  textOfAll(dom, SelectSeq([n \in 1..Len(dom.nodes) |-> n],
                           LAMBDA n : dom.nodes[n].by = "chatkit"))

\* C19: whatever scans have run, every piece of message text outside a JSON
\* payload (before or after the JSON in its node, or in a sibling node of the
\* container) that the vendor widget rendered is still in the document.
C19_NonMatchingTextKept ==
  \A p \in ProsePieces :
    occurrences(textContentOf(dom, CHATKIT_ELEMENT), p) >= occurrences(renderedText, p)

\* the widget wrappers among the descendants of e
wrappersUnder(e) ==
  {i \in 1..Len(descendants(dom, e)) :
     dom.nodes[descendants(dom, e)[i]].cls = WIDGET_CLASS}

\* nothing is left for the scanner to do: no callback runs, no insertion
\* awaits the observer and no root awaits its render
Quiescent == ~dom.scan.active /\ dom.queue = << >> /\ dom.roots = {}

C21_RenderTotal ==
  view.called =>
    /\ ~view.result.threw
    /\ IF view.widget = "contact_card"
         THEN /\ view.result.kind = "contact_card"
              /\ \A key \in {"name", "title", "phone", "email"} :
                   LET field == getField(view.data, key)
                   IN /\ field.t = "undefined" => view.result[key] = ""
                      /\ field.t = "string" => view.result[key] = field.s
       ELSE /\ view.result.kind = "default"
            /\ view.result.label = view.widget
            /\ view.data.t # "undefined" =>
                 view.result.json = tokensOf(view.data, TRUE)

\* what a step of the settings modal other than Save leaves alone
settingsFrame ==
  /\ workflowId' = workflowId
  /\ errors' = errors
  /\ isInitializingSession' = isInitializingSession
  /\ widgetInstanceKey' = widgetInstanceKey

\* C22: the committed workflow identifier changes only in a Save step, which
\* closes the modal and commits the trimmed scratch copy; a step that opens
\* the modal, edits the scratch copy or closes the modal without a reset
\* (Cancel, backdrop) leaves the committed identifier, the errors, the
\* initializing flag and the mount generation unchanged; and the modal opens
\* on a scratch copy equal to the committed identifier.
C22_CommitOnlyOnSave ==
  [][/\ workflowId' # workflowId =>
          (isSettingsOpen /\ ~isSettingsOpen' /\ workflowId' = trim(tempWorkflowId))
     /\ (~isSettingsOpen /\ isSettingsOpen') =>
          (tempWorkflowId' = workflowId /\ settingsFrame)
     /\ (isSettingsOpen /\ isSettingsOpen' /\ tempWorkflowId' # tempWorkflowId) =>
          settingsFrame
     /\ (isSettingsOpen /\ ~isSettingsOpen'
           /\ widgetInstanceKey' = widgetInstanceKey) => settingsFrame]_vars

\* an edit was cancelled: the modal is closed on a scratch copy that differs
\* from the committed identifier, and no reset has taken place
C22_Witness ==
  /\ ~isSettingsOpen
  /\ tempWorkflowId # workflowId
  /\ widgetInstanceKey = 0
  /\ workflowId \in DefaultWorkflowIds

\* C23: once the panel has unmounted, a step of a credential request (its
\* start, or the completion of one that was in flight, with a secret or with
\* a failure) changes no error field and not the initializing flag.
C23_DroppedAfterUnmount ==
  [][(~isMounted /\ (inFlight' # inFlight \/ lastCall' # lastCall)) =>
       (errors' = errors /\ isInitializingSession' = isInitializingSession)]_vars

\* a request in flight at unmount has failed afterwards, and the panel state
\* is still that of a request under way
C23_Witness ==
  /\ ~isMounted
  /\ lastCall.outcome = "rejected"
  /\ lastCall.resp.kind # "none"
  /\ errors.session = null
  /\ isInitializingSession

\* C24: when a credential request has failed because the session endpoint
\* answered with a non-2xx status, the session error it has set is marked
\* retryable.
C24_RejectionRetryable ==
  (isMounted /\ lastCall.outcome = "rejected"
     /\ lastCall.resp.kind = "http" /\ ~lastCall.resp.ok) =>
    (errors.session = lastCall.value /\ errors.retryable)

\* the error is one the panel takes for a domain-verification or
\* authentication failure
recognised(error) ==
  \/ error.name = "DomainVerificationRequestError"
  \/ \E needle \in {"DomainVerification", "domain verification", "401"} :
       includes(error.message, needle)

\* C25: when the embedded widget reports an Error while the panel is mounted,
\* integration is set and retryable becomes true, script and session staying
\* as they were; the message is the allowlist hint with the current origin
\* when the error is recognised as a domain-verification or authentication
\* failure, and the error's own message otherwise.
C25_IntegrationErrorRetryable ==
  [][(OnError /\ isMounted) =>
       \E error \in VendorErrors :
         /\ error.isError
         /\ errors' = [errors EXCEPT
                         !.integration = IF recognised(error) THEN DomainVerificationMsg
                                         ELSE join(error.message),
                         !.retryable = TRUE]]_vars

\* the allowlist hint is set, retryable, beside a script error left as it was
C25_Witness ==
  /\ isMounted
  /\ errors.integration = DomainVerificationMsg
  /\ errors.retryable
  /\ errors.script # null

\* this step is the end of a credential request that was called without a
\* previous secret: its fetch settles, or it fails at once for want of a
\* workflow identifier
requestEnds ==
  \/ inFlight'[FALSE] = inFlight[FALSE] - 1
  \/ lastCall = NoCall /\ lastCall'.outcome = "rejected"
       /\ lastCall'.value = MissingWorkflowMsg

C28_PendingIsLeft ==
  /\ (isMounted /\ ~registered /\ scriptStatus = "pending")
       ~> (scriptStatus # "pending" \/ registered \/ ~isMounted)
  /\ [][/\ (ScriptTimeout /\ ~registered) =>
             /\ scriptStatus' = "error"
             /\ errors'.script = "Error: " \o ScriptUnavailableDetail
             /\ ~errors'.retryable
             /\ ~isInitializingSession'
        /\ ScriptLoadedEvent =>
             (scriptStatus' = "ready" /\ errors'.script = null)
        /\ (ScriptTimeout /\ registered) =>
             (scriptStatus' = scriptStatus /\ errors' = errors)]_vars

\* the timeout has fired on a panel that was initializing
C28_Witness ==
  /\ isMounted /\ ~registered
  /\ scriptStatus = "error"
  /\ errors.script = "Error: " \o ScriptUnavailableDetail
  /\ ~errors.retryable
  /\ ~isInitializingSession
  /\ ~timerArmed

\* C29: a Save in the settings modal sets the committed workflow identifier
\* to the scratch value without its leading and trailing white space, closes
\* the modal and resets the panel in full (mount key advanced, processed
\* tracking emptied, errors cleared, initializing true), whether or not the
\* saved identifier equals the previous one.
Spaces(n) == [i \in 1..n |-> WS]

isTrimmedFrom(out, in) ==
  /\ out = << >> \/ (Head(out) # WS /\ out[Len(out)] # WS)
  /\ \E a, b \in 0..Len(in) : in = Spaces(a) \o out \o Spaces(b)

C29_SaveResetsInFull ==
  [][SaveSettings =>
       /\ isTrimmedFrom(workflowId', tempWorkflowId)
       /\ ~isSettingsOpen'
       /\ widgetInstanceKey' = widgetInstanceKey + 1
       /\ processedFacts' = {}
       /\ errors' = createInitialErrors
       /\ isInitializingSession']_vars

\* a save of the identifier the panel already had, typed with white space
C29_Witness ==
  /\ workflowId = << OTHER_TEXT >>
  /\ tempWorkflowId = << WS, OTHER_TEXT, WS >>
  /\ ~isSettingsOpen
  /\ widgetInstanceKey = 1
  /\ processedFacts = {}
  /\ errors = createInitialErrors
  /\ isInitializingSession

\* C30: once a run of the scanner effect has been torn down (by unmount or by
\* a re-run of the effect) its observer is disconnected and stays so: no
\* poll of that run, pending at the teardown, starts it observing again.
C30_TornDownStaysDisconnected ==
  \A r \in 1..MaxRuns : obs.run[r].torn => ~obs.run[r].observing

\* C31: after a full reset no scan callback runs for an observer of the
\* element of an earlier mount generation.
C31_NoStaleGenerationScan ==
  \A r \in 1..MaxRuns : ~obs.run[r].late

occursIn(piece, text) ==
  \E i \in 1..(Len(text) - Len(piece) + 1) :
    SubSeq(text, i, i + Len(piece) - 1) = piece

RECURSIVE isWithin(_, _)
isWithin(t, n) ==
  IF t = 0 THEN FALSE ELSE t = n \/ isWithin(dom.nodes[t].parent, n)

C33_EveryTextSubmitted ==
  Quiescent =>
    \A t \in 1..Len(dom.nodes) :
      (dom.nodes[t].kind = "text" /\ dom.nodes[t].by = "chatkit" /\ attached(dom, t))
        => \E call \in dom.submitted :
             isWithin(t, call[1]) /\ occursIn(dom.nodes[t].text, call[2])

\* C34: a run of the scanner effect polls or observes only if it found the
\* control handle; a run starts observing only at its start with the root
\* present or when a poll of it fires, and from then on it has no poll
\* pending (it is never observing with a poll pending, so it calls observe
\* once); and a run that polls while the root is present comes to observe
\* it, unless the root goes away first.
C34_PollUntilRootThenObserveOnce ==
  /\ [](\A r \in 1..MaxRuns :
          /\ (obs.run[r].poll \/ obs.run[r].observing) => obs.run[r].started
          /\ ~(obs.run[r].poll /\ obs.run[r].observing))
  /\ [][\A r \in 1..MaxRuns :
          /\ (~obs.run[r].observing /\ obs'.run[r].observing) =>
                /\ obs.element
                /\ obs.run[r].poll \/ ~obs.run[r].started
          /\ (~obs.run[r].poll /\ obs'.run[r].poll) =>
                (~obs.element /\ ~obs.run[r].started /\ obs'.run[r].started)]_vars
  /\ \A r \in 1..MaxRuns :
       (obs.run[r].poll /\ obs.element) ~> (obs.run[r].observing \/ ~obs.element)

\* the first run found no root, polled, and observes the root that came
C34_Witness ==
  /\ obs.current = 1 /\ obs.gen = 0 /\ obs.mounted
  /\ obs.element
  /\ obs.run[1].started /\ obs.run[1].observing /\ ~obs.run[1].poll
  /\ obs.run[1].ran

\* the members of an object value that are objects themselves
objectMembers(d) ==
  {i \in 1..Len(d.m) : d.m[i].val.t = "object"}

\* data holds nested objects, none of them holding an object
oneLevel(d) ==
  /\ d.t = "object" /\ objectMembers(d) # {}
  /\ \A i \in objectMembers(d) : objectMembers(d.m[i].val) = {}

\* data holds an object that holds an object
deeper(d) ==
  /\ d.t = "object"
  /\ \E i \in objectMembers(d) : objectMembers(d.m[i].val) # {}

\* the text is the object alone, white space around it apart
objectAlone ==
  \E spaced \in BOOLEAN, post \in {<< >>, << Sp >>} :
    parse.text = tokensOf(parse.object, spaced) \o post

\* C35 as stated: a payload whose data nests objects one level deep is
\* extracted with its data preserved, and one whose data nests objects
\* deeper is not extracted.
C35_OneNestingLevelOnly ==
  LET t == getField(parse.object, "widget")
      d == getField(parse.object, "data")
  IN (parse.called /\ t.t = "string" /\ t.s # "") =>
       /\ oneLevel(d) =>
            (parse.result.found /\ parse.result.widget = t.s /\ parse.result.data = d)
       /\ deeper(d) => ~parse.result.found

\* C35 amended: a payload whose data holds exactly one nested object, itself
\* flat, is extracted with its data preserved wherever it stands; a payload
\* whose data holds several nested objects or nests deeper is extracted,
\* data preserved, exactly when the text is the payload alone, and gives
\* null inside prose.
C35_NestedExtraction ==
  LET t == getField(parse.object, "widget")
      d == getField(parse.object, "data")
      whole == parse.result.found /\ parse.result.widget = t.s
                 /\ parse.result.data = d
  IN (parse.called /\ t.t = "string" /\ t.s # "") =>
       /\ (oneLevel(d) /\ Cardinality(objectMembers(d)) = 1) => whole
       /\ (deeper(d) \/ (oneLevel(d) /\ Cardinality(objectMembers(d)) > 1)) =>
            /\ parse.result.found <=> objectAlone
            /\ parse.result.found => whole

\* a payload nested two levels deep, alone in its text, has been extracted
C35_Witness ==
  /\ parse.called /\ parse.result.found
  /\ deeper(getField(parse.object, "data"))
  /\ objectAlone

\* C36: in every reachable state the script error is set exactly when the
\* script status is error; a load signal and a full reset leave the status
\* other than error and the script error null.
C36_ScriptErrorIffStatusError ==
  /\ []((errors.script # null) <=> (scriptStatus = "error"))
  /\ [][(ScriptLoadedEvent \/ RetryClick \/ SaveSettings) =>
          (scriptStatus' # "error" /\ errors'.script = null)]_vars

\* a script error has been recorded and then cleared by a late load
C36_Witness ==
  /\ scriptStatus = "ready" /\ errors.script = null
  /\ ~isInitializingSession /\ ~errors.retryable
  /\ widgetInstanceKey = 0 /\ inFlight = [b \in BOOLEAN |-> 0]
  /\ lastCall = NoCall /\ errors.session = null /\ errors.integration = null
  /\ isWorkflowConfigured

\* C37: in every reachable state retryable is true only if the integration
\* error is set.
C37_RetryableOnlyWithIntegration ==
  errors.retryable => errors.integration # null

\* a credential request completes and sets the session error or changes the
\* initializing flag
SettlementShows ==
  /\ FetchSettles
  /\ errors'.session # errors.session \/ isInitializingSession' # isInitializingSession

\* C38: right after a full reset, when every request in flight was issued
\* before it and the new mount generation has issued none, no completion of
\* a request can set the session error or clear the initializing flag.
C38_StaleCompletionDropped ==
  [][(RetryClick \/ SaveSettings) => ~(ENABLED SettlementShows)']_vars

\* C39: between two clears of processedFacts (thread changes or full
\* resets) onWidgetAction is invoked at most once for each fact id, however
\* often record_fact is invoked with it, and never for an empty or missing
\* id; the tool result is success every time.
C39_AtMostOneSavePerFact ==
  /\ \A id \in ToolIds : tool.saved[id] <= 1
  /\ tool.saved[""] = 0
  /\ tool.last.called =>
       /\ tool.last.success
       /\ (tool.last.param.t # "string" \/ tool.last.param.s = "") =>
            ~tool.last.invoked

\* record_fact was invoked three times with one id and saved it once
C39_Witness ==
  /\ tool.asked["fact_1"] = 3
  /\ tool.saved["fact_1"] = 1
  /\ tool.last.called /\ ~tool.last.invoked /\ tool.last.success

====
